---- MODULE Spec2Model ----
(***************************************************************************)
(* EchOcean: the DriftBottle ledger (contract DriftBottle) as a state      *)
(* machine.  Every external function of the contract is one action; a      *)
(* transaction either commits all its writes or reverts and leaves the     *)
(* ledger as it was.  The outcome of the last call (failure reason, return *)
(* value, emitted events) is kept in lastTx.  The frontend parts that the  *)
(* ledger does not see follow: the cache lock (cacheLock.ts), the retrying *)
(* ledger reads (useDriftBottle.ts), the bottle search of the receive page *)
(* (findBottle), the data cache and its global refresh (dataCache.ts), the *)
(* rate limiter (security.ts), the saves under the cache lock and the      *)
(* reply permission of the receive page, each with an environment of its   *)
(* own.                                                                    *)
(***************************************************************************)
EXTENDS Integers, Sequences, FiniteSets, TLC

\* ---------------------------------------------------------------- bounds
\* the main environment stores at most MaxRecords bottles, replies and skip
\* flags in all; the call environment at most CallRecords, the text
\* environment at most TextRecords
MaxRecords == 3
CallRecords == 2
TextRecords == 2

\* ------------------------------------------------------------- constants
MaxContentLength == 1000

Users == {"A", "B", "C"}
ZeroAddress == "0x0"

BottleIds == 1..MaxRecords
ReplyIds == 1..MaxRecords
\* ids a caller may pass: 0 and ids above the counter are out of range
BottleIdArgs == 0..MaxRecords
ReplyIdArgs == 0..MaxRecords
\* residues of the pseudo-random seed modulo the active-set length
Seeds == 0..(MaxRecords - 1)

\* Texts, one per class: "empty" is "", "blank" is one space, "text" is
\* 1000 ASCII characters, "cjk" is 400 three-byte characters, "long" is 1001
\* ASCII characters.
Contents == {"empty", "blank", "text", "cjk", "long"}

\* bytes(content).length
ByteLen(c) ==
  CASE c = "empty" -> 0
    [] c = "blank" -> 1
    [] c = "text" -> 1000
    [] c = "cjk" -> 1200
    [] c = "long" -> 1001

\* number of characters of the text
CharLen(c) ==
  CASE c = "empty" -> 0
    [] c = "blank" -> 1
    [] c = "text" -> 1000
    [] c = "cjk" -> 400
    [] c = "long" -> 1001

\* number of characters of the text after trimming whitespace
TrimLen(c) ==
  CASE c = "empty" -> 0
    [] c = "blank" -> 0
    [] c = "text" -> 1000
    [] c = "cjk" -> 400
    [] c = "long" -> 1001

\* ------------------------------------------------------------------ state
VARIABLES
  bottleIdCounter,    \* _bottleIdCounter
  replyIdCounter,     \* _replyIdCounter
  bottles,            \* mapping(uint256 => Bottle)
  replies,            \* mapping(uint256 => Reply)
  userBottles,        \* mapping(address => uint256[])
  userReplies,        \* mapping(address => uint256[])
  bottleReplies,      \* mapping(uint256 => uint256[])
  userBottleStates,   \* mapping(address => mapping(uint256 => UserBottleState))
  hasUserReplied,     \* mapping(bytes32 => bool): the keys that map to true
  activeBottleIds,    \* uint256[]
  activeBottleIndex,  \* mapping(uint256 => uint256), 0-based positions
  now,                \* block.timestamp (the environments below stay within one block)
  deactivateCalls,    \* history: (sender, bottle) pairs of committed deactivateBottle calls
  lastTx              \* the last call and its outcome

ledgerVars == <<bottleIdCounter, replyIdCounter, bottles, replies, userBottles,
                userReplies, bottleReplies, userBottleStates, hasUserReplied,
                activeBottleIds, activeBottleIndex>>

\* the frontend of one browser tab
VARIABLES
  locks,              \* CacheLockManager.locks: Map<string, CacheLock>
  clock,              \* Date.now(), in units of the poll interval
  lockCalls,          \* the withLock / safeCacheOperation call of every caller
  readCalls,          \* the readBottleData / readBottleReplies call in progress
  bottleDataCache,    \* useDriftBottle bottleDataCache: the keys with a fresh entry
  connected,          \* actuallyConnected && connectionStable
  searches,           \* ReceivePage: the findBottle chains
  isSearching,        \* ReceivePage: isSearching
  wall,               \* Date.now() as the data cache reads it
  localStorage,       \* window.localStorage: the drift-bottle-data entries
  preload,            \* the DataCacheManager.preloadData call
  attempts,           \* RateLimiter.attempts: Map<string, number[]>
  granted,            \* history: the instants at which isAllowed returned true
  rateCall,           \* the last isAllowed call and its answer
  refreshCallbacks,   \* DataCacheManager.refreshCallbacks
  lastRefreshTime,    \* DataCacheManager.lastRefreshTime
  isRefreshing,       \* DataCacheManager.isRefreshing
  refresh,            \* the triggerRefresh call on the stack
  invoked,            \* how often the last accepted refresh has invoked each callback
  lastTrigger,        \* the last triggerRefresh call and whether it passed the guards
  saves,              \* the saveBottleDataToCache call of every caller: its data
  lastIssued,         \* history: the data of the saveBottleDataToCache call issued last
  currentBottle,      \* ReceivePage: the id of currentBottle, 0 for null
  canReply            \* ReceivePage: canReply

lockVars == <<locks, clock, lockCalls>>
readVars == <<readCalls, bottleDataCache, connected>>
searchVars == <<searches, isSearching>>
cacheVars == <<localStorage, preload>>
rateVars == <<attempts, granted, rateCall>>
refreshVars == <<refreshCallbacks, lastRefreshTime, isRefreshing, refresh, invoked,
                 lastTrigger>>
saveVars == <<saves, lastIssued>>
permissionVars == <<currentBottle, canReply>>
pageVars == <<wall, cacheVars, rateVars, refreshVars, saveVars, permissionVars>>
clientVars == <<lockVars, readVars, searchVars, pageVars>>

vars == <<bottleIdCounter, replyIdCounter, bottles, replies, userBottles,
          userReplies, bottleReplies, userBottleStates, hasUserReplied,
          activeBottleIds, activeBottleIndex, now, deactivateCalls, lastTx,
          locks, clock, lockCalls, readCalls, bottleDataCache, connected,
          searches, isSearching, wall, localStorage, preload,
          attempts, granted, rateCall, refreshCallbacks, lastRefreshTime,
          isRefreshing, refresh, invoked, lastTrigger, saves, lastIssued,
          currentBottle, canReply>>

\* zero values of the structs, as read from an unwritten mapping slot
EmptyBottle ==
  [id |-> 0, sender |-> ZeroAddress, content |-> "empty", timestamp |-> 0,
   isActive |-> FALSE, replyCount |-> 0]

EmptyReply ==
  [bottleId |-> 0, replier |-> ZeroAddress, content |-> "empty", timestamp |-> 0,
   replyToReplyId |-> 0]

EmptyUserBottleState == [hasViewed |-> FALSE, hasReplied |-> FALSE, hasSkipped |-> FALSE]

\* reads of mappings at any key
BottleAt(b) == IF b \in BottleIds THEN bottles[b] ELSE EmptyBottle
ReplyAt(r) == IF r \in ReplyIds THEN replies[r] ELSE EmptyReply
BottleRepliesAt(b) == IF b \in BottleIds THEN bottleReplies[b] ELSE <<>>
UserBottleStateAt(u, b) == IF b \in BottleIds THEN userBottleStates[u][b] ELSE EmptyUserBottleState

\* faulty variant: the key is made from the bottle id alone
ReplyKey_BottleOnly(u, b) == <<ZeroAddress, b>>

\* keccak256(abi.encodePacked(msg.sender, bottleId)): a fixed-width encoding,
\* so distinct (address, id) pairs give distinct keys
ReplyKey(u, b) == <<u, b>>

\* failure reasons
OK == ""
PanicArithmetic == "Panic(0x11)"
PanicArrayBounds == "Panic(0x32)"

\* the record of a call: msg.sender (or the address argument of a view), the
\* id argument, the text, the seed, the failure reason ("" on success), the
\* returned value and the emitted events
NoTx == [op |-> "none", sender |-> ZeroAddress, id |-> 0, content |-> "empty",
         seed |-> 0, reason |-> OK, ret |-> 0, logs |-> <<>>]

Tx(op, u, id, c, seed, reason, ret, logs) ==
  [op |-> op, sender |-> u, id |-> id, content |-> c, seed |-> seed,
   reason |-> reason, ret |-> ret, logs |-> logs]

\* a state-changing call and a view call
Call(op, u, id, c, reason, logs) == Tx(op, u, id, c, 0, reason, 0, logs)
View(op, u, id, reason, ret) == Tx(op, u, id, "empty", 0, reason, ret, <<>>)

\* event BottleSent / BottleReplied / BottleSkipped
BottleSent(bottleId, sender) ==
  [event |-> "BottleSent", bottleId |-> bottleId, replyId |-> 0, who |-> sender, timestamp |-> now]
BottleReplied(bottleId, replyId, replier) ==
  [event |-> "BottleReplied", bottleId |-> bottleId, replyId |-> replyId, who |-> replier, timestamp |-> now]
BottleSkipped(bottleId, skipper) ==
  [event |-> "BottleSkipped", bottleId |-> bottleId, replyId |-> 0, who |-> skipper, timestamp |-> now]

\* ------------------------------------------------------------ cache lock
\* callers of withLock / safeCacheOperation in one tab, all on one lock key
LockCallers == {"p", "q"}
LockKey == "cache_k"
\* pollIntervalMs of waitForLock; the clock counts poll intervals
PollInterval == 1
\* the expiryMs and maxWaitMs a caller may pass, in poll intervals
ExpiryChoices == {1, 3}
MaxWaitChoices == {1, 2}
\* the clock stops at MaxClock
MaxClock == 4

\* a caller that is not inside safeCacheOperation; result is what its last
\* call returned ("none" before the first call)
IdleCall ==
  [pc |-> "idle", startTime |-> 0, wake |-> 0, expiryMs |-> 0, maxWaitMs |-> 0,
   fallback |-> FALSE, result |-> "none"]

\* ------------------------------------------------------------ ledger reads
ReadKinds == {"readBottleData", "readBottleReplies"}
\* the bottle ids a page passes: 0 is not a valid id
ReadBottleIds == {0, 1}

\* no call in progress; result is what the last call returned
IdleRead ==
  [pc |-> "idle", bottleId |-> 0, retryCount |-> 0, attempts |-> 0, delays |-> <<>>,
   error |-> "none", result |-> "none"]

\* ------------------------------------------------------------- findBottle
\* chains of findBottle invocations that can be under way at once
Searches == {1, 2}

\* no chain in this slot; last is the answer to the current attempt, shown is what
\* the last chain ended with; calls counts the getRandomBottle calls of a chain
IdleSearch == [pc |-> "idle", retryCount |-> 0, calls |-> 0, last |-> "none", shown |-> "none"]

\* ---------------------------------------------------------- the data cache
\* wall-clock instants run from 0 to MaxWall; every environment that reads
\* the wall clock fixes its unit
MaxWall == 3

\* account addresses as the wallet reports them: "0xAb" is the checksummed
\* spelling of "0xab"
Addresses == {"0xAb", "0xab", "0xcd"}
toLowerCase(a) == IF a = "0xAb" THEN "0xab" ELSE a
\* getCacheKey: the prefix 'drift-bottle-data' and the lower-cased address
getCacheKey(address) == <<"drift-bottle-data", toLowerCase(address)>>
CacheKeys == {getCacheKey(a) : a \in Addresses}

\* CACHE_EXPIRY_TIME: 30 minutes, in units of 15 minutes
CACHE_EXPIRY_TIME == 2

\* the bottle data of a cached state: two snapshots of the ledger
Snapshots == {"v1", "v2"}
\* null: no entry, no answer
Null == [data |-> "null", lastUpdated |-> 0, userAddress |-> "null"]

\* no preloadData call yet; cached is what loadBottleDataFromCache gave the
\* call, ret what it returned, retAge how long before the return ret was
\* saved, served where ret came from, scheduled whether the call set the
\* background timer, timer whether that timer is pending
IdlePreload ==
  [pc |-> "idle", address |-> "null", cached |-> Null, ret |-> Null, retAge |-> 0,
   served |-> "none", scheduled |-> FALSE, timer |-> FALSE]

\* ------------------------------------------------------- the rate limiter
\* the identifiers useDriftBottle passes for one account: the address for
\* sendBottle, the address with '_reply' for replyToBottle (skipBottle passes
\* the address with '_skip' and 20 in the same way)
Identifiers == {"0xab", "0xab_reply"}
maxAttempts(identifier) == IF identifier = "0xab" THEN 5 ELSE 10
\* windowMs: 60 seconds, in units of 30 seconds
windowMs == 2

NoRateCall == [identifier |-> "null", ret |-> FALSE]

\* ------------------------------------------------------ the global refresh
\* the callbacks a component may register: one that returns, one that throws,
\* one that asks for a refresh itself (triggerRefresh() without force)
Callbacks == {"returns", "throws", "refreshes"}

\* the debounce of 5 seconds, in units of 2.5 seconds
Debounce == 2
\* Date.now() counts from 1970: the first instant is more than 5 seconds from 0
Epoch == Debounce
DateNow == Epoch + wall

\* no triggerRefresh call on the stack; registered are the callbacks the running
\* call found, todo those forEach has not reached yet
NoRefresh == [pc |-> "idle", registered |-> {}, todo |-> {}]
\* early: the call came less than the debounce time after lastRefreshTime;
\* busy: isRefreshing was set; nested: the call came from a callback
NoTrigger ==
  [forceRefresh |-> FALSE, early |-> FALSE, busy |-> FALSE, accepted |-> FALSE,
   nested |-> FALSE]

\* ------------------------------------------------------- saves under lock
\* the options saveBottleDataToCache passes to safeCacheOperation: expiryMs
\* 10000 and maxWaitMs 3000, here 3 and 2 poll intervals
SaveExpiryMs == 3
SaveMaxWaitMs == 2
\* the account whose state the page saves
SaveAddress == "0xAb"

\* a caller that has no save under way; written tells that the operation of
\* the call has reached localStorage.setItem
NoSave == [data |-> "null", written |-> FALSE]

\* ---------------------------------------------------------- reply permission
\* the account connected to the receive page
PageAddress == "A"

InitClient ==
  /\ locks = {}
  /\ clock = 0
  /\ lockCalls = [c \in LockCallers |-> IdleCall]
  /\ readCalls = [k \in ReadKinds |-> IdleRead]
  /\ bottleDataCache = {}
  /\ connected = TRUE
  /\ searches = [s \in Searches |-> IdleSearch]
  /\ isSearching = FALSE
  /\ wall = 0
  /\ localStorage = [k \in CacheKeys |-> Null]
  /\ preload = IdlePreload
  /\ attempts = [i \in Identifiers |-> <<>>]
  /\ granted = [i \in Identifiers |-> <<>>]
  /\ rateCall = NoRateCall
  /\ refreshCallbacks = {}
  /\ lastRefreshTime = 0
  /\ isRefreshing = FALSE
  /\ refresh = NoRefresh
  /\ invoked = [cb \in Callbacks |-> 0]
  /\ lastTrigger = NoTrigger
  /\ saves = [c \in LockCallers |-> NoSave]
  /\ lastIssued = "null"
  /\ currentBottle = 0
  /\ canReply = TRUE

Init ==
  /\ bottleIdCounter = 0
  /\ replyIdCounter = 0
  /\ bottles = [b \in BottleIds |-> EmptyBottle]
  /\ replies = [r \in ReplyIds |-> EmptyReply]
  /\ userBottles = [u \in Users |-> <<>>]
  /\ userReplies = [u \in Users |-> <<>>]
  /\ bottleReplies = [b \in BottleIds |-> <<>>]
  /\ userBottleStates = [u \in Users |-> [b \in BottleIds |-> EmptyUserBottleState]]
  /\ hasUserReplied = {}
  /\ activeBottleIds = <<>>
  /\ activeBottleIndex = [b \in BottleIds |-> 0]
  /\ now = 0
  /\ deactivateCalls = {}
  /\ lastTx = NoTx
  /\ InitClient

\* modifier bottleExists / replyExists
bottleExists(bottleId) == bottleId > 0 /\ bottleId <= bottleIdCounter
replyExists(replyId) == replyId > 0 /\ replyId <= replyIdCounter

\* ------------------------------------------------------------ sendBottle
sendBottleReason(content) ==
  IF ~(ByteLen(content) > 0) THEN "Content cannot be empty"
  ELSE IF ~(ByteLen(content) <= MaxContentLength) THEN "Content too long"
  ELSE OK

\* faulty variant: the new bottle is stored inactive
NewBottle_Inactive(bottleId, sender, content) ==
  [id |-> bottleId, sender |-> sender, content |-> content, timestamp |-> now,
   isActive |-> FALSE, replyCount |-> 0]

NewBottle(bottleId, sender, content) ==
  [id |-> bottleId, sender |-> sender, content |-> content, timestamp |-> now,
   isActive |-> TRUE, replyCount |-> 0]

\* faulty variant: the bottle counter is not advanced, the next id is used again
sendBottle_ReusesId(u, content) ==
  LET reason == sendBottleReason(content)
      bottleId == bottleIdCounter + 1
  IN /\ IF reason = OK
        THEN /\ bottleIdCounter' = bottleIdCounter
             /\ bottles' = [bottles EXCEPT ![bottleId] = NewBottle(bottleId, u, content)]
             /\ userBottles' = [userBottles EXCEPT ![u] = Append(@, bottleId)]
             /\ activeBottleIds' = Append(activeBottleIds, bottleId)
             /\ activeBottleIndex' =
                  [activeBottleIndex EXCEPT ![bottleId] = Len(Append(activeBottleIds, bottleId)) - 1]
             /\ lastTx' = Call("sendBottle", u, 0, content, OK, <<BottleSent(bottleId, u)>>)
             /\ UNCHANGED <<replyIdCounter, replies, userReplies, bottleReplies,
                            userBottleStates, hasUserReplied>>
        ELSE /\ lastTx' = Call("sendBottle", u, 0, content, reason, <<>>)
             /\ UNCHANGED ledgerVars
     /\ UNCHANGED <<now, deactivateCalls, clientVars>>

sendBottle(u, content) ==
  LET reason == sendBottleReason(content)
      bottleId == bottleIdCounter + 1
  IN /\ IF reason = OK
        THEN /\ bottleIdCounter' = bottleId
             /\ bottles' = [bottles EXCEPT ![bottleId] = NewBottle(bottleId, u, content)]
             /\ userBottles' = [userBottles EXCEPT ![u] = Append(@, bottleId)]
             /\ activeBottleIds' = Append(activeBottleIds, bottleId)
             /\ activeBottleIndex' =
                  [activeBottleIndex EXCEPT ![bottleId] = Len(Append(activeBottleIds, bottleId)) - 1]
             /\ lastTx' = Call("sendBottle", u, 0, content, OK, <<BottleSent(bottleId, u)>>)
             /\ UNCHANGED <<replyIdCounter, replies, userReplies, bottleReplies,
                            userBottleStates, hasUserReplied>>
        ELSE /\ lastTx' = Call("sendBottle", u, 0, content, reason, <<>>)
             /\ UNCHANGED ledgerVars
     /\ UNCHANGED <<now, deactivateCalls, clientVars>>

\* ------------------------------------------------------- getRandomBottle
\* seed stands for the keccak256 value; only seed % length is used
\* faulty variant: the caller's own bottle is not excluded
getRandomBottleResult_NoOwnCheck(u, seed) ==
  IF ~(Len(activeBottleIds) > 0) THEN [reason |-> "No bottles available", ret |-> 0]
  ELSE LET randomIndex == seed % Len(activeBottleIds)
           bottleId == activeBottleIds[randomIndex + 1]
       IN IF ~BottleAt(bottleId).isActive
            THEN [reason |-> "Bottle is not active", ret |-> 0]
          ELSE [reason |-> OK, ret |-> bottleId]

getRandomBottleResult(u, seed) ==
  IF ~(Len(activeBottleIds) > 0) THEN [reason |-> "No bottles available", ret |-> 0]
  ELSE LET randomIndex == seed % Len(activeBottleIds)
           bottleId == activeBottleIds[randomIndex + 1]
       IN IF ~(BottleAt(bottleId).sender # u)
            THEN [reason |-> "Cannot view your own bottle", ret |-> 0]
          ELSE IF ~BottleAt(bottleId).isActive
            THEN [reason |-> "Bottle is not active", ret |-> 0]
          ELSE [reason |-> OK, ret |-> bottleId]

getRandomBottle(u, seed) ==
  LET res == getRandomBottleResult(u, seed)
  IN /\ lastTx' = Tx("getRandomBottle", u, 0, "empty", seed, res.reason, res.ret, <<>>)
     /\ UNCHANGED <<ledgerVars, now, deactivateCalls, clientVars>>

\* --------------------------------------------------------- replyToBottle
\* faulty variant: the reply guard is not consulted
replyToBottleReason_NoGuard(u, bottleId, content) ==
  IF ~bottleExists(bottleId) THEN "Bottle does not exist"
  ELSE IF ~(ByteLen(content) > 0) THEN "Reply content cannot be empty"
  ELSE IF ~(ByteLen(content) <= MaxContentLength) THEN "Reply content too long"
  ELSE IF ~BottleAt(bottleId).isActive THEN "Bottle is not active"
  ELSE IF ~(BottleAt(bottleId).sender # u) THEN "Cannot reply to your own bottle"
  ELSE OK

replyToBottleReason(u, bottleId, content) ==
  IF ~bottleExists(bottleId) THEN "Bottle does not exist"
  ELSE IF ~(ByteLen(content) > 0) THEN "Reply content cannot be empty"
  ELSE IF ~(ByteLen(content) <= MaxContentLength) THEN "Reply content too long"
  ELSE IF ~BottleAt(bottleId).isActive THEN "Bottle is not active"
  ELSE IF ~(BottleAt(bottleId).sender # u) THEN "Cannot reply to your own bottle"
  ELSE IF ReplyKey(u, bottleId) \in hasUserReplied THEN "Already replied to this bottle"
  ELSE OK

\* faulty variant: a stored reply does not record its parent reply
NewReply_NoParent(bottleId, replier, content, parent) ==
  [bottleId |-> bottleId, replier |-> replier, content |-> content, timestamp |-> now,
   replyToReplyId |-> 0]

NewReply(bottleId, replier, content, parent) ==
  [bottleId |-> bottleId, replier |-> replier, content |-> content, timestamp |-> now,
   replyToReplyId |-> parent]

\* faulty variant: a reply rewrites the creation time of its bottle
replyToBottle_TouchesBottle(u, bottleId, content) ==
  LET reason == replyToBottleReason(u, bottleId, content)
      replyId == replyIdCounter + 1
  IN /\ IF reason = OK
        THEN /\ replyIdCounter' = replyId
             /\ replies' = [replies EXCEPT ![replyId] = NewReply(bottleId, u, content, 0)]
             /\ hasUserReplied' = hasUserReplied \cup {ReplyKey(u, bottleId)}
             /\ userReplies' = [userReplies EXCEPT ![u] = Append(@, replyId)]
             /\ bottleReplies' = [bottleReplies EXCEPT ![bottleId] = Append(@, replyId)]
             /\ bottles' = [bottles EXCEPT ![bottleId].replyCount = @ + 1,
                                           ![bottleId].timestamp = now]
             /\ lastTx' = Call("replyToBottle", u, bottleId, content, OK,
                               <<BottleReplied(bottleId, replyId, u)>>)
             /\ UNCHANGED <<bottleIdCounter, userBottles, userBottleStates,
                            activeBottleIds, activeBottleIndex>>
        ELSE /\ lastTx' = Call("replyToBottle", u, bottleId, content, reason, <<>>)
             /\ UNCHANGED ledgerVars
     /\ UNCHANGED <<now, deactivateCalls, clientVars>>

replyToBottle(u, bottleId, content) ==
  LET reason == replyToBottleReason(u, bottleId, content)
      replyId == replyIdCounter + 1
  IN /\ IF reason = OK
        THEN /\ replyIdCounter' = replyId
             /\ replies' = [replies EXCEPT ![replyId] = NewReply(bottleId, u, content, 0)]
             /\ hasUserReplied' = hasUserReplied \cup {ReplyKey(u, bottleId)}
             /\ userReplies' = [userReplies EXCEPT ![u] = Append(@, replyId)]
             /\ bottleReplies' = [bottleReplies EXCEPT ![bottleId] = Append(@, replyId)]
             /\ bottles' = [bottles EXCEPT ![bottleId].replyCount = @ + 1]
             /\ lastTx' = Call("replyToBottle", u, bottleId, content, OK,
                               <<BottleReplied(bottleId, replyId, u)>>)
             /\ UNCHANGED <<bottleIdCounter, userBottles, userBottleStates,
                            activeBottleIds, activeBottleIndex>>
        ELSE /\ lastTx' = Call("replyToBottle", u, bottleId, content, reason, <<>>)
             /\ UNCHANGED ledgerVars
     /\ UNCHANGED <<now, deactivateCalls, clientVars>>

\* ---------------------------------------------------------- replyToReply
\* faulty variant: the bottle of the parent reply is not required to be active
replyToReplyReason_NoActiveCheck(u, replyId, content) ==
  IF ~replyExists(replyId) THEN "Reply does not exist"
  ELSE IF ~(ByteLen(content) > 0) THEN "Reply content cannot be empty"
  ELSE IF ~(ByteLen(content) <= MaxContentLength) THEN "Reply content too long"
  ELSE IF ~(ReplyAt(replyId).replier # u) THEN "Cannot reply to your own reply"
  ELSE OK

replyToReplyReason(u, replyId, content) ==
  IF ~replyExists(replyId) THEN "Reply does not exist"
  ELSE IF ~(ByteLen(content) > 0) THEN "Reply content cannot be empty"
  ELSE IF ~(ByteLen(content) <= MaxContentLength) THEN "Reply content too long"
  ELSE IF ~(ReplyAt(replyId).replier # u) THEN "Cannot reply to your own reply"
  ELSE IF ~BottleAt(ReplyAt(replyId).bottleId).isActive THEN "Bottle is not active"
  ELSE OK

\* faulty variant: a threaded reply is not counted on its bottle
replyToReply_NotCounted(u, replyId, content) ==
  LET reason == replyToReplyReason(u, replyId, content)
      originalReply == ReplyAt(replyId)
      bottleId == originalReply.bottleId
      newReplyId == replyIdCounter + 1
  IN /\ IF reason = OK
        THEN /\ replyIdCounter' = newReplyId
             /\ replies' = [replies EXCEPT ![newReplyId] = NewReply(bottleId, u, content, replyId)]
             /\ userReplies' = [userReplies EXCEPT ![u] = Append(@, newReplyId)]
             /\ bottleReplies' = [bottleReplies EXCEPT ![bottleId] = Append(@, newReplyId)]
             /\ lastTx' = Call("replyToReply", u, replyId, content, OK,
                               <<BottleReplied(bottleId, newReplyId, u)>>)
             /\ UNCHANGED <<bottleIdCounter, bottles, userBottles, userBottleStates,
                            hasUserReplied, activeBottleIds, activeBottleIndex>>
        ELSE /\ lastTx' = Call("replyToReply", u, replyId, content, reason, <<>>)
             /\ UNCHANGED ledgerVars
     /\ UNCHANGED <<now, deactivateCalls, clientVars>>

replyToReply(u, replyId, content) ==
  LET reason == replyToReplyReason(u, replyId, content)
      originalReply == ReplyAt(replyId)
      bottleId == originalReply.bottleId
      newReplyId == replyIdCounter + 1
  IN /\ IF reason = OK
        THEN /\ replyIdCounter' = newReplyId
             /\ replies' = [replies EXCEPT ![newReplyId] = NewReply(bottleId, u, content, replyId)]
             /\ userReplies' = [userReplies EXCEPT ![u] = Append(@, newReplyId)]
             /\ bottleReplies' = [bottleReplies EXCEPT ![bottleId] = Append(@, newReplyId)]
             /\ bottles' = [bottles EXCEPT ![bottleId].replyCount = @ + 1]
             /\ lastTx' = Call("replyToReply", u, replyId, content, OK,
                               <<BottleReplied(bottleId, newReplyId, u)>>)
             /\ UNCHANGED <<bottleIdCounter, userBottles, userBottleStates, hasUserReplied,
                            activeBottleIds, activeBottleIndex>>
        ELSE /\ lastTx' = Call("replyToReply", u, replyId, content, reason, <<>>)
             /\ UNCHANGED ledgerVars
     /\ UNCHANGED <<now, deactivateCalls, clientVars>>

\* ------------------------------------------------------------ skipBottle
\* faulty variant: the sender may skip the own bottle
skipBottleReason_NoOwnerCheck(u, bottleId) ==
  IF ~bottleExists(bottleId) THEN "Bottle does not exist"
  ELSE IF ~BottleAt(bottleId).isActive THEN "Bottle is not active"
  ELSE IF ReplyKey(u, bottleId) \in hasUserReplied THEN "Cannot skip bottle you've replied to"
  ELSE IF UserBottleStateAt(u, bottleId).hasSkipped THEN "Already skipped this bottle"
  ELSE OK

skipBottleReason(u, bottleId) ==
  IF ~bottleExists(bottleId) THEN "Bottle does not exist"
  ELSE IF ~BottleAt(bottleId).isActive THEN "Bottle is not active"
  ELSE IF ~(BottleAt(bottleId).sender # u) THEN "Cannot skip your own bottle"
  ELSE IF ReplyKey(u, bottleId) \in hasUserReplied THEN "Cannot skip bottle you've replied to"
  ELSE IF UserBottleStateAt(u, bottleId).hasSkipped THEN "Already skipped this bottle"
  ELSE OK

\* faulty variant: a skip also marks the bottle as replied to in the user's state
skipBottle_MarksReplied(u, bottleId) ==
  LET reason == skipBottleReason(u, bottleId)
  IN /\ IF reason = OK
        THEN /\ userBottleStates' = [userBottleStates EXCEPT ![u][bottleId].hasSkipped = TRUE,
                                                             ![u][bottleId].hasReplied = TRUE]
             /\ lastTx' = Call("skipBottle", u, bottleId, "empty", OK, <<BottleSkipped(bottleId, u)>>)
             /\ UNCHANGED <<bottleIdCounter, replyIdCounter, bottles, replies, userBottles,
                            userReplies, bottleReplies, hasUserReplied, activeBottleIds,
                            activeBottleIndex>>
        ELSE /\ lastTx' = Call("skipBottle", u, bottleId, "empty", reason, <<>>)
             /\ UNCHANGED ledgerVars
     /\ UNCHANGED <<now, deactivateCalls, clientVars>>

skipBottle(u, bottleId) ==
  LET reason == skipBottleReason(u, bottleId)
  IN /\ IF reason = OK
        THEN /\ userBottleStates' = [userBottleStates EXCEPT ![u][bottleId].hasSkipped = TRUE]
             /\ lastTx' = Call("skipBottle", u, bottleId, "empty", OK, <<BottleSkipped(bottleId, u)>>)
             /\ UNCHANGED <<bottleIdCounter, replyIdCounter, bottles, replies, userBottles,
                            userReplies, bottleReplies, hasUserReplied, activeBottleIds,
                            activeBottleIndex>>
        ELSE /\ lastTx' = Call("skipBottle", u, bottleId, "empty", reason, <<>>)
             /\ UNCHANGED ledgerVars
     /\ UNCHANGED <<now, deactivateCalls, clientVars>>

\* ------------------------------------------------------ deactivateBottle
\* faulty variant: the active flag is cleared before the sender is checked and the
\* write survives the rejection
deactivateBottleBody_WriteFirst(u, bottleId) ==
  IF ~bottleExists(bottleId)
    THEN [reason |-> "Bottle does not exist", bottles |-> bottles,
          activeBottleIds |-> activeBottleIds, activeBottleIndex |-> activeBottleIndex]
  ELSE IF ~(BottleAt(bottleId).sender = u)
    THEN [reason |-> "Only sender can deactivate",
          bottles |-> [bottles EXCEPT ![bottleId].isActive = FALSE],
          activeBottleIds |-> activeBottleIds, activeBottleIndex |-> activeBottleIndex]
  ELSE
    LET index == activeBottleIndex[bottleId]
        length == Len(activeBottleIds)
    IN IF length = 0 \/ ~(index < length)
         THEN [reason |-> PanicArithmetic, bottles |-> bottles,
               activeBottleIds |-> activeBottleIds, activeBottleIndex |-> activeBottleIndex]
       ELSE
         LET lastBottleId == activeBottleIds[length]
             ids1 == [activeBottleIds EXCEPT ![index + 1] = lastBottleId]
             idx1 == [activeBottleIndex EXCEPT ![lastBottleId] = index]
         IN [reason |-> OK, bottles |-> [bottles EXCEPT ![bottleId].isActive = FALSE],
             activeBottleIds |-> SubSeq(ids1, 1, length - 1),
             activeBottleIndex |-> [idx1 EXCEPT ![bottleId] = 0]]

\* The body of deactivateBottle: the writes it makes and the reason it stops
\* with.  activeBottleIds.length - 1 underflows on an empty array
\* (Panic 0x11) and activeBottleIds[index] is bounds-checked (Panic 0x32); a
\* failed call reverts every write made before the failure.
deactivateBottleBody(u, bottleId) ==
  IF ~bottleExists(bottleId)
    THEN [reason |-> "Bottle does not exist", bottles |-> bottles,
          activeBottleIds |-> activeBottleIds, activeBottleIndex |-> activeBottleIndex]
  ELSE IF ~(BottleAt(bottleId).sender = u)
    THEN [reason |-> "Only sender can deactivate", bottles |-> bottles,
          activeBottleIds |-> activeBottleIds, activeBottleIndex |-> activeBottleIndex]
  ELSE
    LET bottles1 == [bottles EXCEPT ![bottleId].isActive = FALSE]
        index == activeBottleIndex[bottleId]
        length == Len(activeBottleIds)
    IN IF length = 0
         THEN [reason |-> PanicArithmetic, bottles |-> bottles,
               activeBottleIds |-> activeBottleIds, activeBottleIndex |-> activeBottleIndex]
       ELSE IF ~(index < length)
         THEN [reason |-> PanicArrayBounds, bottles |-> bottles,
               activeBottleIds |-> activeBottleIds, activeBottleIndex |-> activeBottleIndex]
       ELSE
         LET lastBottleId == activeBottleIds[length]
             ids1 == [activeBottleIds EXCEPT ![index + 1] = lastBottleId]
             idx1 == [activeBottleIndex EXCEPT ![lastBottleId] = index]
         IN [reason |-> OK, bottles |-> bottles1,
             activeBottleIds |-> SubSeq(ids1, 1, length - 1),
             activeBottleIndex |-> [idx1 EXCEPT ![bottleId] = 0]]

deactivateBottle(u, bottleId) ==
  LET res == deactivateBottleBody(u, bottleId)
  IN /\ bottles' = res.bottles
     /\ activeBottleIds' = res.activeBottleIds
     /\ activeBottleIndex' = res.activeBottleIndex
     /\ deactivateCalls' = IF res.reason = OK THEN deactivateCalls \cup {<<u, bottleId>>}
                           ELSE deactivateCalls
     /\ lastTx' = Call("deactivateBottle", u, bottleId, "empty", res.reason, <<>>)
     /\ UNCHANGED <<bottleIdCounter, replyIdCounter, replies, userBottles, userReplies,
                    bottleReplies, userBottleStates, hasUserReplied, now, clientVars>>

\* --------------------------------------------------------- view functions
\* faulty variant: getBottle without the bottleExists modifier
getBottleResult_NoCheck(bottleId) == [reason |-> OK, ret |-> BottleAt(bottleId)]

getBottleResult(bottleId) ==
  IF ~bottleExists(bottleId) THEN [reason |-> "Bottle does not exist", ret |-> 0]
  ELSE [reason |-> OK, ret |-> BottleAt(bottleId)]

getReplyResult(replyId) ==
  IF ~replyExists(replyId) THEN [reason |-> "Reply does not exist", ret |-> 0]
  ELSE [reason |-> OK, ret |-> ReplyAt(replyId)]

getBottleRepliesResult(bottleId) ==
  IF ~bottleExists(bottleId) THEN [reason |-> "Bottle does not exist", ret |-> 0]
  ELSE [reason |-> OK, ret |-> BottleRepliesAt(bottleId)]

\* faulty variant: hasReplied is read from the reply guard
getUserBottleStateResult_ReadsGuard(user, bottleId) ==
  [reason |-> OK,
   ret |-> [UserBottleStateAt(user, bottleId) EXCEPT
              !.hasReplied = (ReplyKey(user, bottleId) \in hasUserReplied)]]

getUserBottleStateResult(user, bottleId) ==
  [reason |-> OK, ret |-> UserBottleStateAt(user, bottleId)]

hasUserRepliedToBottleResult(user, bottleId) ==
  [reason |-> OK, ret |-> (ReplyKey(user, bottleId) \in hasUserReplied)]

getActiveBottleCount == Len(activeBottleIds)
getBottleCount == bottleIdCounter
getReplyCount == replyIdCounter

ViewStep(tx) == lastTx' = tx /\ UNCHANGED <<ledgerVars, now, deactivateCalls, clientVars>>

getBottle(bottleId) ==
  ViewStep(View("getBottle", ZeroAddress, bottleId,
                getBottleResult(bottleId).reason, getBottleResult(bottleId).ret))

getReply(replyId) ==
  ViewStep(View("getReply", ZeroAddress, replyId,
                getReplyResult(replyId).reason, getReplyResult(replyId).ret))

getBottleReplies(bottleId) ==
  ViewStep(View("getBottleReplies", ZeroAddress, bottleId,
                getBottleRepliesResult(bottleId).reason, getBottleRepliesResult(bottleId).ret))

getUserBottleState(user, bottleId) ==
  ViewStep(View("getUserBottleState", user, bottleId,
                getUserBottleStateResult(user, bottleId).reason,
                getUserBottleStateResult(user, bottleId).ret))

hasUserRepliedToBottle(user, bottleId) ==
  ViewStep(View("hasUserRepliedToBottle", user, bottleId,
                hasUserRepliedToBottleResult(user, bottleId).reason,
                hasUserRepliedToBottleResult(user, bottleId).ret))

\* ------------------------------------------------------------ environments
\* The ledger's record arrays are finite here, so an environment stops
\* creating bottles, replies and skip flags at a cap on their total number.
Skipped == {p \in Users \X BottleIds : userBottleStates[p[1]][p[2]].hasSkipped}
Records == bottleIdCounter + replyIdCounter + Cardinality(Skipped)

\* the text the main environment sends: an accepted one
MainContents == {"text"}

\* The main environment: the transactions that commit, by any user in any
\* order, within one block.  A rejected call and a view call leave the ledger
\* as it is; what they answer in a state is given by the Reason and Result
\* operators.
Next ==
  \/ \E u \in Users, c \in MainContents :
        /\ sendBottleReason(c) = OK
        /\ Records < MaxRecords
        /\ sendBottle(u, c)
  \/ \E u \in Users, b \in BottleIdArgs, c \in MainContents :
        /\ replyToBottleReason(u, b, c) = OK
        /\ Records < MaxRecords
        /\ replyToBottle(u, b, c)
  \/ \E u \in Users, r \in ReplyIdArgs, c \in MainContents :
        /\ replyToReplyReason(u, r, c) = OK
        /\ Records < MaxRecords
        /\ replyToReply(u, r, c)
  \/ \E u \in Users, b \in BottleIdArgs :
        /\ skipBottleReason(u, b) = OK
        /\ Records < MaxRecords
        /\ skipBottle(u, b)
  \/ \E u \in Users, b \in BottleIdArgs :
        /\ deactivateBottleBody(u, b).reason = OK
        /\ deactivateBottle(u, b)

Spec == Init /\ [][Next]_vars

\* The call environment: every external function called with any id, accepted
\* or rejected, by two users, with an empty and an accepted text.
CallUsers == {"A", "B"}
CallContents == {"empty", "text"}
CallBottleIdArgs == 0..CallRecords
CallReplyIdArgs == 0..CallRecords
CallSeeds == 0..(CallRecords - 1)

NextCall ==
  \/ \E u \in CallUsers, c \in CallContents :
        /\ sendBottleReason(c) = OK => Records < CallRecords
        /\ sendBottle(u, c)
  \/ \E u \in CallUsers, seed \in CallSeeds : getRandomBottle(u, seed)
  \/ \E u \in CallUsers, b \in CallBottleIdArgs, c \in CallContents :
        /\ replyToBottleReason(u, b, c) = OK => Records < CallRecords
        /\ replyToBottle(u, b, c)
  \/ \E u \in CallUsers, r \in CallReplyIdArgs, c \in CallContents :
        /\ replyToReplyReason(u, r, c) = OK => Records < CallRecords
        /\ replyToReply(u, r, c)
  \/ \E u \in CallUsers, b \in CallBottleIdArgs :
        /\ skipBottleReason(u, b) = OK => Records < CallRecords
        /\ skipBottle(u, b)
  \/ \E u \in CallUsers, b \in CallBottleIdArgs : deactivateBottle(u, b)
  \/ \E b \in CallBottleIdArgs : getBottle(b)
  \/ \E r \in CallReplyIdArgs : getReply(r)
  \/ \E b \in CallBottleIdArgs : getBottleReplies(b)
  \/ \E u \in CallUsers, b \in CallBottleIdArgs : getUserBottleState(u, b)
  \/ \E u \in CallUsers, b \in CallBottleIdArgs : hasUserRepliedToBottle(u, b)

SpecCall == Init /\ [][NextCall]_vars

\* The text environment: the three functions that take a text, called by two
\* users with a text of every class.
TextBottleIdArgs == 1..TextRecords
TextReplyIdArgs == 1..TextRecords

NextText ==
  \/ \E u \in CallUsers, c \in Contents :
        /\ sendBottleReason(c) = OK => Records < TextRecords
        /\ sendBottle(u, c)
  \/ \E u \in CallUsers, b \in TextBottleIdArgs, c \in Contents :
        /\ replyToBottleReason(u, b, c) = OK => Records < TextRecords
        /\ replyToBottle(u, b, c)
  \/ \E u \in CallUsers, r \in TextReplyIdArgs, c \in Contents :
        /\ replyToReplyReason(u, r, c) = OK => Records < TextRecords
        /\ replyToReply(u, r, c)

SpecText == Init /\ [][NextText]_vars

\* The block environment: the transactions that commit, by two users, spread
\* over blocks with increasing block.timestamp.
TimeRecords == 3
MaxTime == 2

\* a later block: block.timestamp grows, the ledger is as the last block left it
NextBlock ==
  /\ now < MaxTime
  /\ now' = now + 1
  /\ UNCHANGED <<ledgerVars, deactivateCalls, lastTx, clientVars>>

NextTime ==
  \/ NextBlock
  \/ \E u \in CallUsers, c \in MainContents :
        /\ sendBottleReason(c) = OK
        /\ Records < TimeRecords
        /\ sendBottle(u, c)
  \/ \E u \in CallUsers, b \in BottleIdArgs, c \in MainContents :
        /\ replyToBottleReason(u, b, c) = OK
        /\ Records < TimeRecords
        /\ replyToBottle(u, b, c)
  \/ \E u \in CallUsers, r \in ReplyIdArgs, c \in MainContents :
        /\ replyToReplyReason(u, r, c) = OK
        /\ Records < TimeRecords
        /\ replyToReply(u, r, c)
  \/ \E u \in CallUsers, b \in BottleIdArgs :
        /\ skipBottleReason(u, b) = OK
        /\ Records < TimeRecords
        /\ skipBottle(u, b)
  \/ \E u \in CallUsers, b \in BottleIdArgs :
        /\ deactivateBottleBody(u, b).reason = OK
        /\ deactivateBottle(u, b)

SpecTime == Init /\ [][NextTime]_vars

\* ------------------------------------------------- cache lock: operations
ledgerSide == <<ledgerVars, now, deactivateCalls, lastTx>>
outsideLock == <<ledgerSide, readVars, searchVars, pageVars>>

\* interface CacheLock; holder is the caller that set the lock, which the
\* code does not store
CacheLock(key, holder, expiryMs) ==
  [key |-> key, timestamp |-> clock, expiry |-> clock + expiryMs, holder |-> holder]

\* isLocked(key): its answer and the map it leaves (an expired lock is deleted)
\* faulty variant: a lock never expires
isLockedResult_NoExpiry(key) == \E l \in locks : l.key = key

isLockedResult(key) == \E l \in locks : l.key = key /\ ~(l.expiry <= clock)

isLockedLocks(key) == {l \in locks : ~(l.key = key /\ l.expiry <= clock)}

\* one pass of the loop of waitForLock for a call that started at startTime:
\* "timeout" when the loop condition fails, "avail" when the key is not
\* locked, "sleep" when the caller goes to wait for one poll interval
waitForLockPass(key, startTime, maxWaitMs) ==
  IF ~(clock - startTime < maxWaitMs) THEN [pc |-> "timeout", locks |-> locks]
  ELSE IF ~isLockedResult(key) THEN [pc |-> "avail", locks |-> isLockedLocks(key)]
  ELSE [pc |-> "sleep", locks |-> isLockedLocks(key)]

\* what safeCacheOperation returns when withLock returned null, and when the
\* operation threw
NullResult(fallback) == IF fallback THEN "fallback" ELSE "null"
ThrowResult(fallback) == IF fallback THEN "fallback" ELSE "throw"

Finished(result) == [IdleCall EXCEPT !.result = result]

\* a microtask is queued: a caller whose waitForLock returned true has not
\* reached acquireLock yet
MicrotaskPending == \E c \in LockCallers : lockCalls[c].pc = "avail"
\* a setTimeout of waitForLock is due
TimerDue == \E c \in LockCallers : lockCalls[c].pc = "sleep" /\ lockCalls[c].wake <= clock

\* safeCacheOperation -> withLock -> waitForLock, up to the first await
safeCacheOperation(c, expiryMs, maxWaitMs, fallback) ==
  LET pass == waitForLockPass(LockKey, clock, maxWaitMs)
  IN /\ lockCalls[c].pc = "idle"
     /\ locks' = pass.locks
     /\ lockCalls' =
          [lockCalls EXCEPT ![c] =
             IF pass.pc = "timeout" THEN Finished(NullResult(fallback))
             ELSE [pc |-> pass.pc, startTime |-> clock,
                   wake |-> IF pass.pc = "sleep" THEN clock + PollInterval ELSE 0,
                   expiryMs |-> expiryMs, maxWaitMs |-> maxWaitMs,
                   fallback |-> fallback, result |-> "none"]]
     /\ UNCHANGED <<clock, outsideLock>>

\* the setTimeout of waitForLock fires: the next pass of the loop
waitForLock(c) ==
  LET call == lockCalls[c]
      pass == waitForLockPass(LockKey, call.startTime, call.maxWaitMs)
  IN /\ call.pc = "sleep"
     /\ call.wake <= clock
     /\ ~MicrotaskPending
     /\ locks' = pass.locks
     /\ lockCalls' =
          [lockCalls EXCEPT ![c] =
             IF pass.pc = "timeout" THEN Finished(NullResult(call.fallback))
             ELSE [call EXCEPT !.pc = pass.pc,
                               !.wake = IF pass.pc = "sleep" THEN clock + PollInterval ELSE 0]]
     /\ UNCHANGED <<clock, outsideLock>>

\* withLock after waitForLock returned true: acquireLock, then the operation
\* starts or withLock returns null
acquireLock(c) ==
  LET call == lockCalls[c]
      held == \E l \in locks : l.key = LockKey /\ l.expiry > clock
  IN /\ call.pc = "avail"
     /\ IF held
          THEN /\ locks' = locks
               /\ lockCalls' = [lockCalls EXCEPT ![c] = Finished(NullResult(call.fallback))]
          ELSE /\ locks' = {l \in locks : l.key # LockKey} \cup {CacheLock(LockKey, c, call.expiryMs)}
               /\ lockCalls' = [lockCalls EXCEPT ![c].pc = "run"]
     /\ UNCHANGED <<clock, outsideLock>>

\* releaseLock(key)
releaseLock(key) == {l \in locks : l.key # key}

\* the operation returns: finally releaseLock, the value is returned
operationReturns(c) ==
  /\ lockCalls[c].pc = "run"
  /\ locks' = releaseLock(LockKey)
  /\ lockCalls' = [lockCalls EXCEPT ![c] = Finished("value")]
  /\ UNCHANGED <<clock, outsideLock>>

\* the operation throws: finally releaseLock, safeCacheOperation catches
operationThrows(c) ==
  /\ lockCalls[c].pc = "run"
  /\ locks' = releaseLock(LockKey)
  /\ lockCalls' = [lockCalls EXCEPT ![c] = Finished(ThrowResult(lockCalls[c].fallback))]
  /\ UNCHANGED <<clock, outsideLock>>

\* the setInterval callback of startCleanup: expired locks are deleted
startCleanup ==
  /\ ~MicrotaskPending
  /\ \E l \in locks : l.expiry <= clock
  /\ locks' = {l \in locks : ~(l.expiry <= clock)}
  /\ UNCHANGED <<clock, lockCalls, outsideLock>>

\* time passes by one poll interval; queued microtasks and due timers run first
Tick ==
  /\ ~MicrotaskPending
  /\ ~TimerDue
  /\ clock < MaxClock
  /\ clock' = clock + 1
  /\ UNCHANGED <<locks, lockCalls, outsideLock>>

\* The lock environment: two callers use one lock key; a call starts only
\* when its whole wait fits before the clock stops.
NextLock ==
  \/ \E c \in LockCallers, expiryMs \in ExpiryChoices, maxWaitMs \in MaxWaitChoices,
        fallback \in BOOLEAN :
        /\ clock + maxWaitMs + PollInterval <= MaxClock
        /\ safeCacheOperation(c, expiryMs, maxWaitMs, fallback)
  \/ \E c \in LockCallers : waitForLock(c)
  \/ \E c \in LockCallers : acquireLock(c)
  \/ \E c \in LockCallers : operationReturns(c)
  \/ \E c \in LockCallers : operationThrows(c)
  \/ startCleanup
  \/ Tick

SpecLock == Init /\ [][NextLock]_vars

\* The lock environment with the scheduling of the event loop: a queued
\* microtask runs, a due timer fires once no microtask is queued, and time
\* goes on.  An operation may run for ever.
SpecLockLive ==
  /\ SpecLock
  /\ \A c \in LockCallers : WF_vars(acquireLock(c))
  /\ \A c \in LockCallers : SF_vars(waitForLock(c))
  /\ SF_vars(Tick)

\* ------------------------------------------------ ledger reads: operations
outsideRead == <<ledgerSide, lockVars, searchVars, pageVars>>

\* what a readContract call can end with: the data, an empty answer, or an
\* error, thrown by the ledger (a revert carrying the contract's reason), by
\* the transport, or by anything else
ReadOutcomes == {"data", "none", "rejection", "network", "other"}

\* errorMsg.includes('Bottle does not exist') || includes('execution reverted')
\* || includes('invalid bottle') || code === 'CALL_EXCEPTION'
isRejection(error) == error = "rejection"

\* faulty variant: every error counts as a network error
isNetworkError_AnyError(error) == error \in {"rejection", "network", "other"}

\* errorMsg.includes('network' / 'timeout' / 'connection' / 'fetch') ||
\* code === 'NETWORK_ERROR' || code === 'TIMEOUT'
isNetworkError(error) == error = "network"

\* retries allowed and the delay before retry n + 1, in ms
MaxReadRetries(kind) == IF kind = "readBottleData" THEN 3 ELSE 2
DelayCap(kind) == IF kind = "readBottleData" THEN 8000 ELSE 4000
Pow2(n) == CASE n = 0 -> 1 [] n = 1 -> 2 [] n = 2 -> 4 [] n = 3 -> 8 [] OTHER -> 16
RetryDelay(kind, n) ==
  IF Pow2(n) * 1000 < DelayCap(kind) THEN Pow2(n) * 1000 ELSE DelayCap(kind)

\* the call returns null (readBottleData) or [] (readBottleReplies)
ReadNothing(call) == [IdleRead EXCEPT !.result = "nothing", !.error = call.error]

\* readBottleData / readBottleReplies from the entry to the readContract
\* call: the id is validated, the connection is checked (a retry runs in the
\* closure of the first call, which saw the wallet connected), a fresh cache
\* entry is returned, otherwise the ledger is asked
ReadEnter(kind, call, isConnected) ==
  IF ~(call.bottleId > 0) THEN ReadNothing(call)
  ELSE IF ~isConnected THEN ReadNothing(call)
  ELSE IF kind \in bottleDataCache THEN [IdleRead EXCEPT !.result = "cached"]
  ELSE [call EXCEPT !.pc = "call", !.attempts = @ + 1]

readStart(kind, bottleId) ==
  /\ readCalls[kind].pc = "idle"
  /\ readCalls' = [readCalls EXCEPT ![kind] =
                     ReadEnter(kind, [IdleRead EXCEPT !.bottleId = bottleId], connected)]
  /\ UNCHANGED <<bottleDataCache, connected, outsideRead>>

\* readContract returns or throws
readContractAnswers(kind, outcome) ==
  LET call == readCalls[kind]
  IN /\ call.pc = "call"
     /\ CASE outcome = "data" ->
               /\ readCalls' = [readCalls EXCEPT ![kind] = [IdleRead EXCEPT !.result = "data"]]
               /\ bottleDataCache' = bottleDataCache \cup {kind}
          [] outcome = "none" ->
               /\ readCalls' = [readCalls EXCEPT ![kind] = [IdleRead EXCEPT !.result = "nothing"]]
               /\ bottleDataCache' = IF kind = "readBottleReplies"
                                       THEN bottleDataCache \cup {kind} ELSE bottleDataCache
          [] OTHER ->
               /\ readCalls' = [readCalls EXCEPT ![kind] =
                    IF kind = "readBottleData" /\ isRejection(outcome)
                      THEN ReadNothing([call EXCEPT !.error = outcome])
                    ELSE IF call.retryCount < MaxReadRetries(kind) /\ isNetworkError(outcome)
                      THEN [call EXCEPT !.pc = "delay", !.error = outcome,
                                        !.delays = Append(@, RetryDelay(kind, call.retryCount))]
                    ELSE ReadNothing([call EXCEPT !.error = outcome])]
               /\ bottleDataCache' = bottleDataCache
     /\ UNCHANGED <<connected, outsideRead>>

\* the setTimeout of the retry fires: the function calls itself with retryCount + 1
readRetry(kind) ==
  LET call == readCalls[kind]
  IN /\ call.pc = "delay"
     /\ readCalls' = [readCalls EXCEPT ![kind] =
                        ReadEnter(kind, [call EXCEPT !.retryCount = @ + 1], TRUE)]
     /\ UNCHANGED <<bottleDataCache, connected, outsideRead>>

\* a cache entry gets older than its lifetime (5 and 3 minutes)
cacheExpires(kind) ==
  /\ kind \in bottleDataCache
  /\ bottleDataCache' = bottleDataCache \ {kind}
  /\ UNCHANGED <<readCalls, connected, outsideRead>>

\* the wallet connects or disconnects
connectionChanges ==
  /\ connected' = ~connected
  /\ UNCHANGED <<readCalls, bottleDataCache, outsideRead>>

\* The read environment: a page reads a bottle and its replies, with any
\* answer of the ledger and the transport; a pending readContract call is
\* answered and a retry timer fires.
NextRead ==
  \/ \E kind \in ReadKinds, b \in ReadBottleIds : readStart(kind, b)
  \/ \E kind \in ReadKinds, outcome \in ReadOutcomes : readContractAnswers(kind, outcome)
  \/ \E kind \in ReadKinds : readRetry(kind)
  \/ \E kind \in ReadKinds : cacheExpires(kind)
  \/ connectionChanges

SpecRead ==
  /\ Init
  /\ [][NextRead]_vars
  /\ \A kind \in ReadKinds :
       /\ WF_vars(\E outcome \in ReadOutcomes : readContractAnswers(kind, outcome))
       /\ WF_vars(readRetry(kind))

\* ---------------------------------------------------- findBottle: operations
outsideSearch == <<ledgerSide, lockVars, readCalls, bottleDataCache, pageVars>>

\* what getRandomBottle can end with: a bottle id, or an error
RandomOutcomes == {"id", "No bottles available", "Cannot view your own bottle",
                   "user rejected", "other"}

\* faulty variant: one more automatic re-roll
MayReroll_OneMore(retryCount) == retryCount < 4

\* retryCount < 3
MayReroll(retryCount) == retryCount < 3

SearchEnded(last, shown) == [IdleSearch EXCEPT !.last = last, !.shown = shown]

\* finally: the invocation with retryCount 0 clears isSearching when it returns
AfterFinally(retryCount) == IF retryCount = 0 THEN FALSE ELSE isSearching

\* the user presses the search button: findBottle() up to await getRandomBottle()
findBottle(s) ==
  /\ searches[s].pc = "idle"
  /\ IF ~connected
       THEN /\ searches' = [searches EXCEPT ![s] = SearchEnded("none", "notConnected")]
            /\ isSearching' = isSearching
     ELSE IF isSearching
       THEN UNCHANGED <<searches, isSearching>>
     ELSE /\ searches' = [searches EXCEPT ![s] =
                            [pc |-> "random", retryCount |-> 0, calls |-> 1,
                             last |-> "none", shown |-> "none"]]
          /\ isSearching' = TRUE
  /\ UNCHANGED <<connected, outsideSearch>>

\* getRandomBottle returns an id or throws: the catch block of findBottle
getRandomBottleAnswers(s, outcome) ==
  LET search == searches[s]
  IN /\ search.pc = "random"
     /\ IF outcome = "id"
          THEN /\ searches' = [searches EXCEPT ![s].pc = "read", ![s].last = outcome]
               /\ isSearching' = isSearching
        ELSE /\ searches' = [searches EXCEPT ![s] =
                  IF outcome = "No bottles available" THEN SearchEnded(outcome, "noBottles")
                  ELSE IF outcome = "Cannot view your own bottle"
                    THEN IF MayReroll(search.retryCount)
                           THEN [search EXCEPT !.pc = "timer", !.last = outcome]
                         ELSE SearchEnded(outcome, "friendly")
                  ELSE IF outcome = "user rejected" THEN SearchEnded(outcome, "cancelled")
                  ELSE SearchEnded(outcome, "error")]
             /\ isSearching' = AfterFinally(search.retryCount)
     /\ UNCHANGED <<connected, outsideSearch>>

\* readBottleData(bottleId) returns: the bottle is the user's own or not
readBottleDataAnswers(s, own) ==
  LET search == searches[s]
  IN /\ search.pc = "read"
     /\ searches' = [searches EXCEPT ![s] =
          IF own
            THEN IF MayReroll(search.retryCount)
                   THEN [search EXCEPT !.pc = "timer", !.last = "own bottle"]
                 ELSE SearchEnded("own bottle", "ownBottle")
          ELSE SearchEnded("other bottle", "bottle")]
     /\ isSearching' = AfterFinally(search.retryCount)
     /\ UNCHANGED <<connected, outsideSearch>>

\* the setTimeout of the re-roll fires: findBottle(retryCount + 1), in the
\* closure of the first invocation, which saw the wallet connected
findBottleRetry(s) ==
  LET search == searches[s]
  IN /\ search.pc = "timer"
     /\ searches' = [searches EXCEPT ![s] =
                       [search EXCEPT !.pc = "random", !.retryCount = @ + 1, !.calls = @ + 1,
                                      !.last = "none"]]
     /\ UNCHANGED <<isSearching, connected, outsideSearch>>

\* The search environment: the user presses the search button at any time,
\* the ledger answers anything; a pending call is answered and a re-roll timer
\* fires.
NextSearch ==
  \/ \E s \in Searches : findBottle(s)
  \/ \E s \in Searches, outcome \in RandomOutcomes : getRandomBottleAnswers(s, outcome)
  \/ \E s \in Searches, own \in BOOLEAN : readBottleDataAnswers(s, own)
  \/ \E s \in Searches : findBottleRetry(s)
  \/ connectionChanges

SpecSearch ==
  /\ Init
  /\ [][NextSearch]_vars
  /\ \A s \in Searches :
       /\ WF_vars(\E outcome \in RandomOutcomes : getRandomBottleAnswers(s, outcome))
       /\ WF_vars(\E own \in BOOLEAN : readBottleDataAnswers(s, own))
       /\ WF_vars(findBottleRetry(s))

\* ------------------------------------------- the data cache (dataCache.ts)
outsideCache == <<ledgerSide, lockVars, readVars, searchVars, rateVars, refreshVars, saveVars, permissionVars>>

\* how the entry to be written compares with the 5 MB limits
SaveSizes == {"fits", "entryTooLarge", "storageFull"}

StoredKeys(storage) == {k \in CacheKeys : storage[k] # Null}

\* clearOldCacheEntries: the oldest half of the entries, rounded down, is removed;
\* entries of equal age are removed in the order of Object.keys
clearOldCacheEntries(storage, removedKeys) ==
  [k \in CacheKeys |-> IF k \in removedKeys THEN Null ELSE storage[k]]

OldestHalf(storage) ==
  {R \in SUBSET StoredKeys(storage) :
     /\ Cardinality(R) = Cardinality(StoredKeys(storage)) \div 2
     /\ \A r \in R, k \in StoredKeys(storage) \ R :
          storage[r].lastUpdated <= storage[k].lastUpdated}

\* the operation saveBottleDataToCache runs under the cache lock: the entry is
\* stamped with the time of the write and the lower-cased address
cacheWrite(storage, address, data, t, size, removedKeys) ==
  IF size = "entryTooLarge" THEN storage
  ELSE [(IF size = "storageFull" THEN clearOldCacheEntries(storage, removedKeys) ELSE storage)
          EXCEPT ![getCacheKey(address)] =
            [data |-> data, lastUpdated |-> t, userAddress |-> toLowerCase(address)]]

\* loadBottleDataFromCache: its answer and what it leaves in localStorage
isExpired(entry, t) == t - entry.lastUpdated > CACHE_EXPIRY_TIME

loadResult(storage, address, t) ==
  LET cached == storage[getCacheKey(address)]
  IN  IF cached = Null THEN Null
      ELSE IF isExpired(cached, t) THEN Null
      ELSE IF cached.userAddress # toLowerCase(address) THEN Null
      ELSE cached

loadStorage(storage, address, t) ==
  LET cached == storage[getCacheKey(address)]
  IN  IF cached # Null /\ isExpired(cached, t)
      THEN [storage EXCEPT ![getCacheKey(address)] = Null]
      ELSE storage

\* DataCacheManager.isDataStale
isDataStale(lastUpdated, t) == t - lastUpdated > CACHE_EXPIRY_TIME

saveBottleDataToCache(address, data, size) ==
  /\ \E removedKeys \in OldestHalf(localStorage) :
       localStorage' = cacheWrite(localStorage, address, data, wall, size, removedKeys)
  /\ UNCHANGED <<wall, preload, outsideCache>>

loadBottleDataFromCache(address) ==
  /\ localStorage' = loadStorage(localStorage, address, wall)
  /\ UNCHANGED <<wall, preload, outsideCache>>

\* preloadData up to its return or its await: the cache is read at the
\* instant wall, isDataStale reads the clock again, elapsed instants later
preloadData(address, elapsed) ==
  /\ preload.pc # "loader"
  /\ ~preload.timer
  /\ wall + elapsed <= MaxWall
  /\ wall' = wall + elapsed
  /\ localStorage' = loadStorage(localStorage, address, wall)
  /\ LET cached == loadResult(localStorage, address, wall)
     IN  IF cached # Null /\ ~isDataStale(cached.lastUpdated, wall')
         THEN preload' = [pc |-> "done", address |-> address, cached |-> Null,
                          ret |-> cached, retAge |-> wall' - cached.lastUpdated,
                          served |-> "cache", scheduled |-> TRUE, timer |-> TRUE]
         ELSE preload' = [pc |-> "loader", address |-> address, cached |-> cached,
                          ret |-> Null, retAge |-> 0, served |-> "none",
                          scheduled |-> FALSE, timer |-> FALSE]
  /\ UNCHANGED outsideCache

\* await dataLoader() resolves: the fresh data is saved and returned
dataLoaderResolves(fresh, size) ==
  /\ preload.pc = "loader"
  /\ \E removedKeys \in OldestHalf(localStorage) :
       localStorage' = cacheWrite(localStorage, preload.address, fresh, wall, size, removedKeys)
  /\ preload' = [preload EXCEPT !.pc = "done", !.cached = Null,
                   !.ret = [data |-> fresh, lastUpdated |-> wall,
                            userAddress |-> toLowerCase(preload.address)],
                   !.served = "fresh"]
  /\ UNCHANGED <<wall, outsideCache>>

\* await dataLoader() rejects: catch returns cached
dataLoaderRejects ==
  /\ preload.pc = "loader"
  /\ preload' = [preload EXCEPT !.pc = "done", !.cached = Null, !.ret = preload.cached,
                   !.retAge = IF preload.cached = Null THEN 0
                              ELSE wall - preload.cached.lastUpdated,
                   !.served = IF preload.cached = Null THEN "none" ELSE "fallback"]
  /\ UNCHANGED <<wall, localStorage, outsideCache>>

\* updateCacheIfChanged: saves when there is no entry or the data differ
updateCacheIfChanged(storage, address, newData, t, size, removedKeys) ==
  LET existing == loadResult(storage, address, t)
      after == loadStorage(storage, address, t)
  IN  IF existing = Null \/ existing.data # newData
      THEN cacheWrite(after, address, newData, t, size, removedKeys)
      ELSE after

\* the timer preloadData set: dataLoader is called and its answer compared
\* with the cache; a rejection is logged
backgroundRefresh(fresh, size) ==
  /\ preload.timer
  /\ \/ \E removedKeys \in OldestHalf(loadStorage(localStorage, preload.address, wall)) :
          localStorage' = updateCacheIfChanged(localStorage, preload.address, fresh,
                                               wall, size, removedKeys)
     \/ UNCHANGED localStorage
  /\ preload' = [preload EXCEPT !.timer = FALSE]
  /\ UNCHANGED <<wall, outsideCache>>

timePasses ==
  /\ wall < MaxWall
  /\ wall' = wall + 1
  /\ UNCHANGED <<cacheVars, outsideCache>>

\* The cache environment: the page saves, loads and preloads for any
\* address at any instant; the data loader answers or fails.
NextCache ==
  \/ \E a \in Addresses, d \in Snapshots, size \in SaveSizes : saveBottleDataToCache(a, d, size)
  \/ \E a \in Addresses : loadBottleDataFromCache(a)
  \/ \E a \in Addresses, elapsed \in {0, 1} : preloadData(a, elapsed)
  \/ \E d \in Snapshots, size \in SaveSizes : dataLoaderResolves(d, size)
  \/ dataLoaderRejects
  \/ \E d \in Snapshots, size \in SaveSizes : backgroundRefresh(d, size)
  \/ timePasses

SpecCache == Init /\ [][NextCache]_vars

\* ------------------------------------------ the rate limiter (security.ts)
outsideRate == <<ledgerSide, lockVars, readVars, searchVars, cacheVars, refreshVars, saveVars, permissionVars>>

\* userAttempts.filter(timestamp => timestamp > windowStart)
validAttempts(userAttempts, t) ==
  LET InWindow(timestamp) == timestamp > t - windowMs
  IN  SelectSeq(userAttempts, InWindow)

\* faulty variant: the attempt is recorded before the limit is tested
isAllowedAttempts_RecordsAll(identifier, t) ==
  Append(validAttempts(attempts[identifier], t), t)

\* RateLimiter.isAllowed: what it leaves under the identifier, what it returns
isAllowedAttempts(identifier, t) ==
  LET valid == validAttempts(attempts[identifier], t)
  IN  IF Len(valid) >= maxAttempts(identifier) THEN valid ELSE Append(valid, t)

isAllowedResult(identifier, t) ==
  Len(validAttempts(attempts[identifier], t)) < maxAttempts(identifier)

isAllowed(identifier) ==
  /\ attempts' = [attempts EXCEPT ![identifier] = isAllowedAttempts(identifier, wall)]
  /\ rateCall' = [identifier |-> identifier, ret |-> isAllowedResult(identifier, wall)]
  /\ granted' = IF isAllowedResult(identifier, wall)
                THEN [granted EXCEPT ![identifier] = Append(@, wall)]
                ELSE granted
  /\ UNCHANGED <<wall, outsideRate>>

\* the clock moves on; the history forgets the instants that no window of
\* length windowMs shares with an instant still to come
StillInReach(history, t) ==
  LET Near(instant) == instant + windowMs > t
  IN  SelectSeq(history, Near)

rateTimePasses ==
  /\ wall < MaxWall
  /\ wall' = wall + 1
  /\ granted' = [i \in Identifiers |-> StillInReach(granted[i], wall')]
  /\ UNCHANGED <<attempts, rateCall, outsideRate>>

\* The rate-limiter environment: the hook asks for any identifier at any
\* instant, any number of times.
NextRate ==
  \/ \E i \in Identifiers : isAllowed(i)
  \/ rateTimePasses

SpecRate == Init /\ [][NextRate]_vars

\* --------------------------- the global refresh (DataCacheManager, dataCache.ts)
outsideRefresh == <<ledgerSide, lockVars, readVars, searchVars, cacheVars, rateVars, saveVars, permissionVars>>

\* onRefresh and the function it returns; the components register and
\* unregister in effects, not inside a refresh
onRefresh(callback) ==
  /\ refresh.pc = "idle"
  /\ refreshCallbacks' = refreshCallbacks \cup {callback}
  /\ UNCHANGED <<wall, lastRefreshTime, isRefreshing, refresh, invoked, lastTrigger,
                 outsideRefresh>>

unregister(callback) ==
  /\ refresh.pc = "idle"
  /\ callback \in refreshCallbacks
  /\ refreshCallbacks' = refreshCallbacks \ {callback}
  /\ UNCHANGED <<wall, lastRefreshTime, isRefreshing, refresh, invoked, lastTrigger,
                 outsideRefresh>>

\* faulty variant: the call does not look at isRefreshing
passesGuards_NoBusyCheck(forceRefresh) ==
  ~(~forceRefresh /\ DateNow - lastRefreshTime < Debounce)

\* the two guards of triggerRefresh
passesGuards(forceRefresh) ==
  /\ ~(~forceRefresh /\ DateNow - lastRefreshTime < Debounce)
  /\ ~(isRefreshing /\ ~forceRefresh)

\* triggerRefresh called by a component (RefreshButton and the performance
\* panel pass true): up to the start of forEach
triggerRefresh(forceRefresh) ==
  /\ refresh.pc = "idle"
  /\ lastTrigger' = [forceRefresh |-> forceRefresh,
                     early |-> DateNow - lastRefreshTime < Debounce,
                     busy |-> isRefreshing,
                     accepted |-> passesGuards(forceRefresh), nested |-> FALSE]
  /\ IF passesGuards(forceRefresh)
     THEN /\ isRefreshing' = TRUE
          /\ lastRefreshTime' = DateNow
          /\ refresh' = [pc |-> "running", registered |-> refreshCallbacks,
                         todo |-> refreshCallbacks]
          /\ invoked' = [cb \in Callbacks |-> 0]
     ELSE UNCHANGED <<isRefreshing, lastRefreshTime, refresh, invoked>>
  /\ UNCHANGED <<wall, refreshCallbacks, outsideRefresh>>

\* forEach reaches a callback; what the callback throws is caught and logged.
\* The callback that asks for a refresh calls triggerRefresh() on top of the
\* running call: if that call passes the guards it invokes every callback
\* again and clears isRefreshing when it returns.
callbackRuns(callback) ==
  /\ refresh.pc = "running"
  /\ callback \in refresh.todo
  /\ refresh' = [refresh EXCEPT !.todo = @ \ {callback}]
  /\ IF callback = "refreshes"
     THEN /\ lastTrigger' = [forceRefresh |-> FALSE,
                             early |-> DateNow - lastRefreshTime < Debounce,
                             busy |-> isRefreshing,
                             accepted |-> passesGuards(FALSE), nested |-> TRUE]
          /\ IF passesGuards(FALSE)
             THEN /\ lastRefreshTime' = DateNow
                  /\ invoked' = [cb \in Callbacks |->
                                   invoked[cb] + (IF cb = callback THEN 1 ELSE 0)
                                               + (IF cb \in refreshCallbacks THEN 1 ELSE 0)]
                  /\ isRefreshing' = FALSE
             ELSE /\ invoked' = [invoked EXCEPT ![callback] = @ + 1]
                  /\ UNCHANGED <<lastRefreshTime, isRefreshing>>
     ELSE /\ invoked' = [invoked EXCEPT ![callback] = @ + 1]
          /\ UNCHANGED <<lastTrigger, lastRefreshTime, isRefreshing>>
  /\ UNCHANGED <<wall, refreshCallbacks, outsideRefresh>>

\* forEach is through: finally
refreshReturns ==
  /\ refresh.pc = "running"
  /\ refresh.todo = {}
  /\ isRefreshing' = FALSE
  /\ refresh' = [refresh EXCEPT !.pc = "idle"]
  /\ UNCHANGED <<wall, refreshCallbacks, lastRefreshTime, invoked, lastTrigger,
                 outsideRefresh>>

\* The refresh environment: components register and unregister, refreshes
\* are asked for with and without force, the clock runs also while the
\* callbacks of a refresh run.
NextRefresh ==
  \/ \E cb \in Callbacks : onRefresh(cb)
  \/ \E cb \in Callbacks : unregister(cb)
  \/ \E forceRefresh \in BOOLEAN : triggerRefresh(forceRefresh)
  \/ \E cb \in Callbacks : callbackRuns(cb)
  \/ refreshReturns
  \/ timePasses

SpecRefresh == Init /\ [][NextRefresh]_vars

\* ------------------------ saves under the cache lock (dataCache.ts, cacheLock.ts)
outsideSave == <<ledgerSide, readVars, searchVars, wall, preload, rateVars, refreshVars,
                 permissionVars>>

\* saveBottleDataToCache(address, data) up to the first await: safeCacheOperation
\* with the lock key of the address, fallbackValue false
saveBottleDataToCacheCall(c, data) ==
  LET pass == waitForLockPass(LockKey, clock, SaveMaxWaitMs)
  IN /\ lockCalls[c].pc = "idle"
     /\ locks' = pass.locks
     /\ lockCalls' =
          [lockCalls EXCEPT ![c] =
             IF pass.pc = "timeout" THEN Finished(NullResult(TRUE))
             ELSE [pc |-> pass.pc, startTime |-> clock,
                   wake |-> IF pass.pc = "sleep" THEN clock + PollInterval ELSE 0,
                   expiryMs |-> SaveExpiryMs, maxWaitMs |-> SaveMaxWaitMs,
                   fallback |-> TRUE, result |-> "none"]]
     /\ saves' = [saves EXCEPT ![c] = [data |-> data, written |-> FALSE]]
     /\ lastIssued' = data
     /\ UNCHANGED <<clock, localStorage, outsideSave>>

\* the operation of a save that holds the lock: the entry is written
saveOperation(c) ==
  /\ lockCalls[c].pc = "run"
  /\ ~saves[c].written
  /\ localStorage' = cacheWrite(localStorage, SaveAddress, saves[c].data, clock, "fits", {})
  /\ saves' = [saves EXCEPT ![c].written = TRUE]
  /\ UNCHANGED <<lockVars, lastIssued, outsideSave>>

\* every save call has returned
SavesSettled == \A c \in LockCallers : lockCalls[c].pc = "idle"

\* The save environment: the page issues saves for one address at any moment,
\* two of them in one job when an effect and a cleanup both save.  The
\* operation is synchronous, so its write and its return follow the acquire
\* before a timer fires or time goes on.
NextSave ==
  \/ \E c \in LockCallers, d \in Snapshots :
        /\ clock + SaveMaxWaitMs + PollInterval <= MaxClock
        /\ saveBottleDataToCacheCall(c, d)
  \/ \E c \in LockCallers : waitForLock(c) /\ \A o \in LockCallers : lockCalls[o].pc # "run"
  \/ \E c \in LockCallers : acquireLock(c)
  \/ \E c \in LockCallers : saveOperation(c)
  \/ \E c \in LockCallers : saves[c].written /\ operationReturns(c)
  \/ Tick /\ \A o \in LockCallers : lockCalls[o].pc # "run"

SpecSave == Init /\ [][NextSave]_vars

\* ------------------------------- reply permission of the receive page (ReceivePage)
outsidePermission == <<lockVars, readVars, searchVars, wall, cacheVars, rateVars,
                       refreshVars, saveVars>>

\* the replies of a bottle as fetchBottleData parses them: the stored replies
\* of getBottleReplies, in the order of the list
ParsedReplies(bottleId) ==
  [k \in 1..Len(BottleRepliesAt(bottleId)) |-> ReplyAt(BottleRepliesAt(bottleId)[k])]

\* checkReplyPermissions: the value it leaves in canReply
checkReplyPermissions(sender, parsedReplies, account) ==
  IF sender = account THEN FALSE
  ELSE IF Len(parsedReplies) > 0 /\ parsedReplies[Len(parsedReplies)].replier = account
    THEN FALSE
  ELSE TRUE

\* fetchBottleData(bottleId) with answers from the ledger as it is: the
\* permissions are checked and the bottle becomes currentBottle
fetchBottleData(bottleId) ==
  /\ bottleExists(bottleId)
  /\ canReply' = checkReplyPermissions(BottleAt(bottleId).sender, ParsedReplies(bottleId),
                                       PageAddress)
  /\ currentBottle' = bottleId
  /\ UNCHANGED <<ledgerSide, outsidePermission>>

\* The page environment: the transactions of the main environment, and the
\* page showing any stored bottle at any moment.
NextPage ==
  \/ Next
  \/ \E b \in BottleIds : fetchBottleData(b)

SpecPage == Init /\ [][NextPage]_vars

\* ---------------------------------------------------------------- claims
\* derived views of the ledger used by the properties
ActiveSet == {activeBottleIds[i] : i \in 1..Len(activeBottleIds)}
ActiveFlagged == {b \in BottleIds : bottles[b].isActive}
StoredBottles == {b \in BottleIds : b <= bottleIdCounter}
StoredReplies == {r \in ReplyIds : r <= replyIdCounter}
DirectReplies(u, b) ==
  {r \in StoredReplies : /\ replies[r].replier = u
                          /\ replies[r].bottleId = b
                          /\ replies[r].replyToReplyId = 0}
RepliesOf(b) == {r \in StoredReplies : replies[r].bottleId = b}
PassesLength(c) == ByteLen(c) >= 1 /\ ByteLen(c) <= 1000

\* C1 as stated: at most one stored direct reply per (user, bottle), and once
\* u has a direct reply on b every replyToBottle(b, any content) by u is
\* rejected with "Already replied to this bottle".
C1_AlwaysAlreadyReplied ==
  \A u \in Users, b \in BottleIds :
    /\ Cardinality(DirectReplies(u, b)) <= 1
    /\ DirectReplies(u, b) # {} =>
         \A c \in Contents : replyToBottleReason(u, b, c) = "Already replied to this bottle"

\* C1 amended: at most one stored direct reply per (user, bottle); once u has
\* a direct reply on b every replyToBottle(b, any content) by u is rejected,
\* with "Already replied to this bottle" when the text passes the length
\* checks and b is still active, and with the reason of the earlier failed
\* check otherwise.
C1_OneReplyPerUserPerBottle ==
  \A u \in Users, b \in BottleIds :
    /\ Cardinality(DirectReplies(u, b)) <= 1
    /\ DirectReplies(u, b) # {} =>
         \A c \in Contents :
           /\ replyToBottleReason(u, b, c) # OK
           /\ (PassesLength(c) /\ bottles[b].isActive) =>
                replyToBottleReason(u, b, c) = "Already replied to this bottle"
           /\ ByteLen(c) = 0 => replyToBottleReason(u, b, c) = "Reply content cannot be empty"
           /\ ByteLen(c) > 1000 => replyToBottleReason(u, b, c) = "Reply content too long"
           /\ (PassesLength(c) /\ ~bottles[b].isActive) =>
                replyToBottleReason(u, b, c) = "Bottle is not active"

\* C1 witness: u replied to b, another user replied to b after that, b is
\* still active, and u's next replyToBottle(b) is rejected as a duplicate.
C1_Witness ==
  \E u \in Users, v \in Users, b \in BottleIds :
    /\ u # v
    /\ replyIdCounter = 2
    /\ 1 \in DirectReplies(u, b)
    /\ replies[2].replier = v /\ replies[2].bottleId = b
    /\ bottles[b].isActive
    /\ replyToBottleReason(u, b, "text") = "Already replied to this bottle"

\* C2 as stated: the active-set holds exactly the ids of the bottles whose
\* active flag is true, each once, so getActiveBottleCount() is the number
\* of bottles with active = true.
C2_ActiveSetMatchesFlags ==
  /\ ActiveSet = ActiveFlagged
  /\ Cardinality(ActiveSet) = Len(activeBottleIds)
  /\ getActiveBottleCount = Cardinality(ActiveFlagged)

\* C3 as stated: every successful deactivateBottle(b) removes b from the
\* active-set and decreases getActiveBottleCount() by exactly 1 (the set
\* after the call is the set before it without b), and in every later state
\* b is not in the active-set and no getRandomBottle call returns b.
C3_DeactivateRemovesBottle ==
  [][ /\ (lastTx'.op = "deactivateBottle" /\ lastTx'.reason = OK) =>
           /\ lastTx'.id \in ActiveSet
           /\ ActiveSet' = ActiveSet \ {lastTx'.id}
           /\ Len(activeBottleIds') = Len(activeBottleIds) - 1
      /\ \A p \in deactivateCalls' :
           /\ p[2] \notin ActiveSet'
           /\ \A u \in Users, seed \in Seeds :
                getRandomBottleResult(u, seed)'.reason = OK =>
                  getRandomBottleResult(u, seed)'.ret # p[2] ]_vars

\* C4 as stated: every read accessor that takes a bottle id fails with the
\* not-found condition for an id outside [1, getBottleCount()], and getReply
\* fails for a reply id outside [1, getReplyCount()].
C4_AllAccessorsNotFound ==
  /\ ( /\ lastTx.op \in {"getBottle", "getBottleReplies", "getUserBottleState",
                          "hasUserRepliedToBottle"}
       /\ lastTx.id \notin 1..bottleIdCounter ) => lastTx.reason = "Bottle does not exist"
  /\ (lastTx.op = "getReply" /\ lastTx.id \notin 1..replyIdCounter) =>
       lastTx.reason = "Reply does not exist"

\* C4 amended: getBottle and getBottleReplies fail with "Bottle does not
\* exist" for an id outside [1, getBottleCount()] and getReply fails with
\* "Reply does not exist" for an id outside [1, getReplyCount()];
\* getUserBottleState and hasUserRepliedToBottle do not fail for such an id:
\* they return the all-false state and false.
C4_CheckedAccessorsNotFound ==
  /\ (lastTx.op \in {"getBottle", "getBottleReplies"} /\ lastTx.id \notin 1..bottleIdCounter) =>
       lastTx.reason = "Bottle does not exist"
  /\ (lastTx.op = "getReply" /\ lastTx.id \notin 1..replyIdCounter) =>
       lastTx.reason = "Reply does not exist"
  /\ (lastTx.op = "getUserBottleState" /\ lastTx.id \notin 1..bottleIdCounter) =>
       (lastTx.reason = OK /\ lastTx.ret = EmptyUserBottleState)
  /\ (lastTx.op = "hasUserRepliedToBottle" /\ lastTx.id \notin 1..bottleIdCounter) =>
       (lastTx.reason = OK /\ lastTx.ret = FALSE)

\* C4 witness: getBottle was called with the id just above the bottle count
\* of a ledger that holds a bottle, and failed.
C4_Witness ==
  /\ bottleIdCounter >= 1
  /\ lastTx.op = "getBottle"
  /\ lastTx.id = bottleIdCounter + 1
  /\ lastTx.reason = "Bottle does not exist"

C6_RandomBottle ==
  \A u \in Users, seed \in Seeds :
    LET r == getRandomBottleResult(u, seed)
    IN /\ r.reason = OK =>
            /\ Len(activeBottleIds) > 0
            /\ r.ret \in ActiveSet
            /\ bottles[r.ret].isActive
            /\ bottles[r.ret].sender # u
       /\ Len(activeBottleIds) = 0 => r.reason = "No bottles available"
       /\ (Len(activeBottleIds) > 0 /\ \A b \in ActiveSet : bottles[b].sender = u) =>
            r.reason = "Cannot view your own bottle"

\* C6 witness: the active-set holds a bottle of the caller and a bottle of
\* another user; one seed returns the other user's bottle, another seed
\* fails on the caller's own bottle.
C6_Witness ==
  \E u \in Users, s1 \in Seeds, s2 \in Seeds :
    /\ Len(activeBottleIds) = 2
    /\ getRandomBottleResult(u, s1).reason = OK
    /\ getRandomBottleResult(u, s2).reason = "Cannot view your own bottle"

\* C7 as stated: once deactivateBottle(b) has committed, getBottle(b) reports
\* active = false and every later replyToBottle(b), replyToReply on a reply of
\* b and skipBottle(b) is rejected with "Bottle is not active"; b's
\* replyCount and reply list never change again and the replies stored
\* before stay stored.
C7_AlwaysNotActive ==
  [][ /\ \A p \in deactivateCalls' :
           /\ getBottleResult(p[2])'.reason = OK
           /\ ~getBottleResult(p[2])'.ret.isActive
           /\ \A u \in Users, c \in Contents :
                replyToBottleReason(u, p[2], c)' = "Bottle is not active"
           /\ \A u \in Users, c \in Contents, r \in RepliesOf(p[2])' :
                replyToReplyReason(u, r, c)' = "Bottle is not active"
           /\ \A u \in Users : skipBottleReason(u, p[2])' = "Bottle is not active"
      /\ \A p \in deactivateCalls :
           /\ bottles'[p[2]].replyCount = bottles[p[2]].replyCount
           /\ bottleReplies'[p[2]] = bottleReplies[p[2]]
      /\ \A r \in StoredReplies : r \in StoredReplies' /\ replies'[r] = replies[r] ]_vars

\* C7 amended: once deactivateBottle(b) has committed, getBottle(b) reports
\* active = false and every later replyToBottle(b), replyToReply on a reply of
\* b and skipBottle(b) is rejected: skipBottle always with "Bottle is not
\* active", replyToBottle with it when the text passes the length checks,
\* replyToReply with it when the text passes the length checks and the caller
\* is not the author of the parent reply, and with the reason of the earlier
\* failed check otherwise; b's replyCount and reply list never change again
\* and the replies stored before stay stored.
C7_DeactivationBlocksReplies ==
  [][ /\ \A p \in deactivateCalls' :
           /\ getBottleResult(p[2])'.reason = OK
           /\ ~getBottleResult(p[2])'.ret.isActive
           /\ \A u \in Users, c \in Contents :
                /\ replyToBottleReason(u, p[2], c)' # OK
                /\ PassesLength(c) => replyToBottleReason(u, p[2], c)' = "Bottle is not active"
                /\ ByteLen(c) = 0 =>
                     replyToBottleReason(u, p[2], c)' = "Reply content cannot be empty"
                /\ ByteLen(c) > 1000 =>
                     replyToBottleReason(u, p[2], c)' = "Reply content too long"
           /\ \A u \in Users, c \in Contents, r \in RepliesOf(p[2])' :
                /\ replyToReplyReason(u, r, c)' # OK
                /\ (PassesLength(c) /\ replies'[r].replier # u) =>
                     replyToReplyReason(u, r, c)' = "Bottle is not active"
                /\ (PassesLength(c) /\ replies'[r].replier = u) =>
                     replyToReplyReason(u, r, c)' = "Cannot reply to your own reply"
           /\ \A u \in Users : skipBottleReason(u, p[2])' = "Bottle is not active"
      /\ \A p \in deactivateCalls :
           /\ bottles'[p[2]].replyCount = bottles[p[2]].replyCount
           /\ bottleReplies'[p[2]] = bottleReplies[p[2]]
      /\ \A r \in StoredReplies : r \in StoredReplies' /\ replies'[r] = replies[r] ]_vars

\* C7 witness: a bottle was replied to, then deactivated by its sender, and
\* another call committed after the deactivation; the reply is still stored.
C7_Witness ==
  \E p \in deactivateCalls :
    /\ ~bottles[p[2]].isActive
    /\ bottles[p[2]].replyCount = 1
    /\ Len(bottleReplies[p[2]]) = 1
    /\ replies[bottleReplies[p[2]][1]].bottleId = p[2]
    /\ lastTx.op # "deactivateBottle"

\* a text of 1 to 1000 characters that is not empty after trimming
ValidText(c) == CharLen(c) >= 1 /\ CharLen(c) <= 1000 /\ TrimLen(c) >= 1
TextReasons == {"Content cannot be empty", "Content too long",
                "Reply content cannot be empty", "Reply content too long"}

\* C8 as stated: sendBottle, replyToBottle and replyToReply accept a text
\* exactly when it has 1 to 1000 characters and is not empty after trimming:
\* a text is rejected for its text only if it is not such a text, a call with
\* any other text is rejected, and sendBottle, which checks nothing else,
\* commits exactly for such a text.
C8_TextAcceptedIffValid ==
  lastTx.op \in {"sendBottle", "replyToBottle", "replyToReply"} =>
    /\ lastTx.reason \in TextReasons => ~ValidText(lastTx.content)
    /\ ~ValidText(lastTx.content) => lastTx.reason # OK
    /\ lastTx.op = "sendBottle" => (lastTx.reason = OK <=> ValidText(lastTx.content))

\* C9: a rejected call leaves the whole ledger as it was.
C9_RejectedLeavesLedger ==
  [][ lastTx'.reason # OK => UNCHANGED ledgerVars ]_vars

\* C9 witness: deactivateBottle has just failed on the arithmetic underflow
\* of an empty active-set (the sender deactivating the only bottle again).
C9_Witness ==
  /\ lastTx.op = "deactivateBottle"
  /\ lastTx.reason = PanicArithmetic
  /\ bottleIdCounter >= 1
  /\ bottles[lastTx.id].sender = lastTx.sender

\* C10: no direct reply is by the sender of its bottle, no user has the
\* skipped flag for a bottle they sent, a bottle is inactive only if its own
\* sender issued a deactivateBottle for it; replyToBottle and skipBottle by
\* the bottle's sender and deactivateBottle by anyone else are rejected.
C10_Ownership ==
  /\ \A r \in StoredReplies :
       replies[r].replyToReplyId = 0 => replies[r].replier # bottles[replies[r].bottleId].sender
  /\ \A u \in Users, b \in StoredBottles :
       userBottleStates[u][b].hasSkipped => bottles[b].sender # u
  /\ \A b \in StoredBottles :
       ~bottles[b].isActive => <<bottles[b].sender, b>> \in deactivateCalls
  /\ \A p \in deactivateCalls : bottles[p[2]].sender = p[1]
  /\ \A u \in Users, b \in StoredBottles :
       /\ bottles[b].sender = u =>
            /\ skipBottleReason(u, b) # OK
            /\ \A c \in Contents : replyToBottleReason(u, b, c) # OK
       /\ bottles[b].sender # u => deactivateBottleBody(u, b).reason # OK

\* C10 witness: a bottle that a user replied to and a user skipped has been
\* deactivated by its sender.
C10_Witness ==
  \E b \in StoredBottles, u \in Users, v \in Users :
    /\ ~bottles[b].isActive
    /\ DirectReplies(u, b) # {}
    /\ userBottleStates[v][b].hasSkipped


\* what an accepted replyToReply(r, content) by u writes
ThreadedReplyEffect ==
  (lastTx'.op = "replyToReply" /\ lastTx'.reason = OK) =>
    LET u == lastTx'.sender
        r == lastTx'.id
        b == replies[r].bottleId
        n == replyIdCounter + 1
    IN /\ replyIdCounter' = n
       /\ replies'[n] = [bottleId |-> b, replier |-> u, content |-> lastTx'.content,
                         timestamp |-> now, replyToReplyId |-> r]
       /\ \A q \in ReplyIds \ {n} : replies'[q] = replies[q]
       /\ userReplies'[u] = Append(userReplies[u], n)
       /\ \A v \in Users \ {u} : userReplies'[v] = userReplies[v]
       /\ bottleReplies'[b] = Append(bottleReplies[b], n)
       /\ \A d \in BottleIds \ {b} : bottleReplies'[d] = bottleReplies[d]
       /\ bottles'[b] = [bottles[b] EXCEPT !.replyCount = @ + 1]
       /\ \A d \in BottleIds \ {b} : bottles'[d] = bottles[d]
       /\ hasUserReplied' = hasUserReplied
       /\ \A v \in Users, d \in BottleIdArgs :
            hasUserRepliedToBottleResult(v, d)' = hasUserRepliedToBottleResult(v, d)
       /\ UNCHANGED <<bottleIdCounter, userBottles, userBottleStates,
                      activeBottleIds, activeBottleIndex>>

\* r is an existing reply id, u is not its author and its bottle is active
ThreadedReplyAllowed(u, r) ==
  /\ r \in StoredReplies
  /\ replies[r].replier # u
  /\ replies[r].bottleId \in BottleIds
  /\ bottles[replies[r].bottleId].isActive

\* C11 as stated: replyToReply(r, content) by u succeeds exactly when r is an
\* existing reply id, u is not r's author and r's bottle is active, whatever
\* the content and whatever the reply guard of u; it stores a new reply with
\* the same bottleId and parentReplyId = r, appends it to u's and the
\* bottle's reply lists, increments the bottle's replyCount and leaves the
\* reply guard and hasUserRepliedToBottle unchanged.
C11_SucceedsForAnyContent ==
  [][ /\ \A u \in Users, r \in ReplyIdArgs, c \in Contents :
           (replyToReplyReason(u, r, c) = OK) <=> ThreadedReplyAllowed(u, r)
      /\ ThreadedReplyEffect ]_vars

\* C11 amended: replyToReply(r, content) by u succeeds exactly when r is an
\* existing reply id, the content has 1 to 1000 bytes, u is not r's author
\* and r's bottle is active, whatever the reply guard of u; the effect is as
\* stated.
C11_ThreadedReply ==
  [][ /\ \A u \in Users, r \in ReplyIdArgs, c \in Contents :
           (replyToReplyReason(u, r, c) = OK) <=> (ThreadedReplyAllowed(u, r) /\ PassesLength(c))
      /\ ThreadedReplyEffect ]_vars

\* C11 witness: a threaded reply on reply 1 has just committed; its author
\* may thread on reply 1 again, and the author of reply 1, who holds the reply
\* guard of the bottle, may thread on the new reply.
C11_Witness ==
  /\ lastTx.op = "replyToReply" /\ lastTx.reason = OK
  /\ replyIdCounter = 2
  /\ replies[2].replyToReplyId = 1
  /\ replies[2].bottleId = replies[1].bottleId
  /\ replyToReplyReason(lastTx.sender, 1, "text") = OK
  /\ ReplyKey(replies[1].replier, replies[1].bottleId) \in hasUserReplied
  /\ replyToReplyReason(replies[1].replier, 2, "text") = OK

\* C12: an accepted skipBottle(b) by u sets u's skipped flag for b, which was
\* not set, and changes nothing else; skipBottle(b) by u is rejected when b is
\* inactive, when u sent b, when u has a direct reply on b and when u has
\* skipped b; the flag is never cleared, so a second skipBottle(b) by u fails.
C12_SkipChangesOnlyFlag ==
  [][ /\ (lastTx'.op = "skipBottle" /\ lastTx'.reason = OK) =>
           LET u == lastTx'.sender
               b == lastTx'.id
           IN /\ ~userBottleStates[u][b].hasSkipped
              /\ userBottleStates'[u][b] = [userBottleStates[u][b] EXCEPT !.hasSkipped = TRUE]
              /\ \A v \in Users, d \in BottleIds :
                   <<v, d>> # <<u, b>> => userBottleStates'[v][d] = userBottleStates[v][d]
              /\ UNCHANGED <<bottleIdCounter, replyIdCounter, bottles, replies, userBottles,
                             userReplies, bottleReplies, hasUserReplied, activeBottleIds,
                             activeBottleIndex>>
      /\ \A u \in Users, b \in StoredBottles :
           /\ ~bottles[b].isActive => skipBottleReason(u, b) # OK
           /\ bottles[b].sender = u => skipBottleReason(u, b) # OK
           /\ DirectReplies(u, b) # {} => skipBottleReason(u, b) # OK
           /\ userBottleStates[u][b].hasSkipped =>
                /\ skipBottleReason(u, b) # OK
                /\ userBottleStates'[u][b].hasSkipped ]_vars

\* C12 witness: a skip of a bottle that holds another user's reply has just
\* committed, and the same skip again would be rejected as a repetition.
C12_Witness ==
  /\ lastTx.op = "skipBottle" /\ lastTx.reason = OK
  /\ bottles[lastTx.id].replyCount = 1
  /\ userBottleStates[lastTx.sender][lastTx.id].hasSkipped
  /\ skipBottleReason(lastTx.sender, lastTx.id) = "Already skipped this bottle"

\* C13: stored records are append-only.  A stored bottle stays stored with
\* the same id, sender, content and creation time, its active flag never goes
\* from false to true and its replyCount never decreases; a stored reply
\* stays stored with every field as it was.
C13_AppendOnly ==
  [][ /\ \A b \in StoredBottles :
           /\ b \in StoredBottles'
           /\ bottles[b].id = b
           /\ bottles'[b].id = bottles[b].id
           /\ bottles'[b].sender = bottles[b].sender
           /\ bottles'[b].content = bottles[b].content
           /\ bottles'[b].timestamp = bottles[b].timestamp
           /\ bottles'[b].isActive => bottles[b].isActive
           /\ bottles'[b].replyCount >= bottles[b].replyCount
      /\ \A r \in StoredReplies :
           /\ r \in StoredReplies'
           /\ replies'[r] = replies[r] ]_vars

\* C13 witness: a bottle made in an earlier block was replied to in a later
\* block and then deactivated; it keeps its creation time and its reply.
C13_Witness ==
  \E b \in StoredBottles :
    /\ bottles[b].timestamp < now
    /\ ~bottles[b].isActive
    /\ bottles[b].replyCount = 1
    /\ Len(bottleReplies[b]) = 1
    /\ replies[bottleReplies[b][1]].timestamp > bottles[b].timestamp

\* C14: bottle ids and reply ids are two independent gapless sequences from
\* 1.  The written bottle slots are exactly 1..getBottleCount() and slot k
\* holds id k, the written reply slots are exactly 1..getReplyCount(); no
\* counter ever decreases; an accepted sendBottle advances the bottle counter
\* by one and leaves the reply counter, an accepted reply advances the reply
\* counter by one and leaves the bottle counter, skipBottle and
\* deactivateBottle leave both.
C14_IdSequences ==
  [][ /\ \A k \in BottleIds : (bottles[k] # EmptyBottle) <=> (k \in 1..getBottleCount)
      /\ \A k \in BottleIds : (bottles'[k] # EmptyBottle) <=> (k \in 1..getBottleCount')
      /\ \A k \in 1..getBottleCount' : bottles'[k].id = k
      /\ \A k \in BottleIdArgs : (getBottleResult(k)'.reason = OK) <=> (k \in 1..getBottleCount')
      /\ \A k \in ReplyIds : (replies'[k] # EmptyReply) <=> (k \in 1..getReplyCount')
      /\ \A k \in ReplyIdArgs : (getReplyResult(k)'.reason = OK) <=> (k \in 1..getReplyCount')
      /\ getBottleCount' >= getBottleCount
      /\ getReplyCount' >= getReplyCount
      /\ lastTx'.reason = OK =>
           /\ lastTx'.op = "sendBottle" =>
                (getBottleCount' = getBottleCount + 1 /\ getReplyCount' = getReplyCount)
           /\ lastTx'.op \in {"replyToBottle", "replyToReply"} =>
                (getReplyCount' = getReplyCount + 1 /\ getBottleCount' = getBottleCount)
           /\ lastTx'.op \in {"skipBottle", "deactivateBottle"} =>
                (getBottleCount' = getBottleCount /\ getReplyCount' = getReplyCount) ]_vars

\* C14 witness: two bottles were sent and then the first reply was made: the
\* bottle ids are 1, 2 and the reply id is 1.
C14_Witness ==
  /\ getBottleCount = 2
  /\ getReplyCount = 1
  /\ lastTx.op = "replyToBottle" /\ lastTx.reason = OK
  /\ bottles[2].id = 2
  /\ replies[1].bottleId \in {1, 2}

\* the reverse index gives the position of every entry of the active-set,
\* and no id is entered twice
ReverseIndexConsistent ==
  /\ \A i \in 1..Len(activeBottleIds) : activeBottleIndex[activeBottleIds[i]] = i - 1
  /\ Cardinality(ActiveSet) = Len(activeBottleIds)

\* C15 as stated: in every reachable state activeBottleIndex maps every entry
\* of activeBottleIds to its position and the array holds no id twice, and
\* an accepted deactivateBottle(b) removes the entry found at b's recorded
\* position, which is b's entry, and no other bottle's entry.
C15_RemovesOwnEntry ==
  [][ /\ ReverseIndexConsistent
      /\ ReverseIndexConsistent'
      /\ (lastTx'.op = "deactivateBottle" /\ lastTx'.reason = OK) =>
           LET b == lastTx'.id
               index == activeBottleIndex[b]
           IN /\ activeBottleIds[index + 1] = b
              /\ \A d \in ActiveSet \ {b} : d \in ActiveSet' ]_vars

\* the callers that are executing their operation
Running == {c \in LockCallers : lockCalls[c].pc = "run"}

\* C16 as stated: at any time at most one caller is executing its operation
\* between acquiring and releasing the lock of the key, however long the
\* operations last, and the release of a caller never removes a lock that is
\* held by a different caller.
C16_ExclusiveAccess ==
  [][ /\ Cardinality(Running') <= 1
      /\ \A c \in LockCallers :
           (lockCalls[c].pc = "run" /\ lockCalls'[c].pc # "run") =>
             \A l \in locks :
               (l.holder # c /\ l.holder \in Running /\ l.expiry > clock) => l \in locks' ]_vars

\* C17 as stated: a caller that found the key's lock free within maxWaitMs of
\* its call gets the lock and runs its operation, and a caller that waited
\* leaves without running (null or the fallback value) only from the wait
\* loop, after maxWaitMs have passed with the lock held at every poll.
C17_WaitsThenRuns ==
  [][ \A c \in LockCallers :
        /\ (lockCalls[c].pc = "avail" /\ lockCalls'[c].pc # "avail") => lockCalls'[c].pc = "run"
        /\ (lockCalls[c].pc \in {"sleep", "avail"} /\ lockCalls'[c].pc = "idle") =>
             /\ lockCalls[c].pc = "sleep"
             /\ clock - lockCalls[c].startTime >= lockCalls[c].maxWaitMs ]_vars

\* C18: no lock key stays locked for ever.  When the operation of a caller
\* returns or throws, the key has no lock afterwards; a lock whose expiry has
\* passed does not block: isLocked answers false and a new call finds the key
\* available, also while the holder is still running; a caller in waitForLock
\* started at most maxWaitMs plus one poll interval ago; and every caller that
\* is waiting or about to acquire comes to run its operation or to return.
C18_NoLockForever ==
  /\ [][ \A c \in LockCallers :
           (lockCalls[c].pc = "run" /\ lockCalls'[c].pc = "idle") =>
             /\ \A l \in locks' : l.key # LockKey
             /\ lockCalls'[c].result \in {"value", "throw", "fallback"} ]_vars
  /\ [] ( (\A l \in locks : l.expiry <= clock) =>
            /\ ~isLockedResult(LockKey)
            /\ waitForLockPass(LockKey, clock, PollInterval).pc = "avail" )
  /\ [] ( \A c \in LockCallers :
            lockCalls[c].pc \in {"sleep", "avail"} =>
              clock - lockCalls[c].startTime <= lockCalls[c].maxWaitMs + PollInterval )
  /\ \A c \in LockCallers :
       (lockCalls[c].pc \in {"sleep", "avail"}) ~> (lockCalls[c].pc \in {"run", "idle"})

\* C18 witness: a caller waited its whole maxWaitMs while the other caller
\* held the lock and returned without running; the holder is still running
\* and its lock, still in the map, has expired.
C18_Witness ==
  \E c \in LockCallers, d \in LockCallers :
    /\ lockCalls[c].pc = "idle"
    /\ lockCalls[c].result \in {"null", "fallback"}
    /\ lockCalls[d].pc = "run"
    /\ \E l \in locks : l.holder = d /\ l.expiry <= clock /\ l.expiry - l.timestamp = 3

\* C19: ledger reads retry a bounded number of times and terminate.  One
\* readBottleData call makes at most 4 getBottle attempts, with the delays
\* 1000, 2000, 4000 ms between them; one readBottleReplies call makes at
\* most 3 getBottleReplies attempts, with the delays 1000, 2000 ms; a retry
\* is scheduled only after a network error; after a ledger rejection the
\* call returns nothing (null, or an empty list) without another attempt;
\* and every call returns.
C19_BoundedRetries ==
  /\ [] ( \A kind \in ReadKinds :
            LET call == readCalls[kind]
                expected == IF kind = "readBottleData" THEN <<1000, 2000, 4000>>
                            ELSE <<1000, 2000>>
            IN /\ call.attempts <= Len(expected) + 1
               /\ call.retryCount <= Len(expected)
               /\ Len(call.delays) <= Len(expected)
               /\ call.delays = SubSeq(expected, 1, Len(call.delays))
               /\ call.attempts <= Len(call.delays) + 1 )
  /\ [][ \A kind \in ReadKinds :
           readCalls[kind].pc = "call" =>
             /\ readCalls'[kind].pc = "delay" => readCalls'[kind].error = "network"
             /\ readCalls'[kind].error = "rejection" =>
                  /\ readCalls'[kind].pc = "idle"
                  /\ readCalls'[kind].result = "nothing" ]_vars
  /\ \A kind \in ReadKinds : (readCalls[kind].pc # "idle") ~> (readCalls[kind].pc = "idle")

\* C19 witness: readBottleData is in its fourth attempt after three network
\* errors, and readBottleReplies has returned nothing after a rejection.
C19_Witness ==
  /\ readCalls["readBottleData"].pc = "call"
  /\ readCalls["readBottleData"].attempts = 4
  /\ readCalls["readBottleData"].delays = <<1000, 2000, 4000>>
  /\ readCalls["readBottleReplies"].pc = "idle"
  /\ readCalls["readBottleReplies"].result = "nothing"
  /\ readCalls["readBottleReplies"].error = "rejection"

\* C20: one search re-rolls at most 3 times.  A chain makes at most 4
\* getRandomBottle calls, with retryCount 0..3; a re-roll is scheduled only on
\* the own-bottle condition and only while retryCount < 3; after the attempt
\* with retryCount 3 the chain ends: it surfaces the own bottle, or shows the
\* friendly own-bottle message when the ledger rejected the call; any other
\* failure ends the chain at once; and every chain ends.
C20_BoundedRerolls ==
  /\ [] ( \A s \in Searches :
            /\ searches[s].calls <= 4
            /\ searches[s].retryCount <= 3
            /\ searches[s].pc # "idle" => searches[s].calls = searches[s].retryCount + 1 )
  /\ [][ \A s \in Searches :
           LET search == searches[s]
               after == searches'[s]
           IN /\ (search.pc # "timer" /\ after.pc = "timer") =>
                   /\ after.last \in {"own bottle", "Cannot view your own bottle"}
                   /\ search.retryCount < 3
                   /\ after.retryCount = search.retryCount
              /\ (search.pc \in {"random", "read"} /\ search.retryCount = 3
                    /\ after.last \in {"own bottle", "Cannot view your own bottle"}) =>
                   /\ after.pc = "idle"
                   /\ after.last = "own bottle" => after.shown = "ownBottle"
                   /\ after.last = "Cannot view your own bottle" => after.shown = "friendly"
              /\ (search.pc = "random"
                    /\ after.last \in {"No bottles available", "user rejected", "other"}) =>
                   /\ after.pc = "idle"
                   /\ after.shown \in {"noBottles", "cancelled", "error"} ]_vars
  /\ \A s \in Searches : (searches[s].pc # "idle") ~> (searches[s].pc = "idle")

\* C20 witness: a chain has ended after its fourth getRandomBottle call on
\* the user's own bottle, which it surfaced, while the other chain ended on
\* the friendly message.
C20_Witness ==
  \E s \in Searches, t \in Searches :
    /\ searches[s].pc = "idle" /\ searches[s].shown = "ownBottle"
    /\ searches[t].pc = "idle" /\ searches[t].shown = "friendly"

\* C21: loadBottleDataFromCache returns an entry only if it was saved at most
\* 30 minutes before and carries the lower-cased requested address, and an
\* expired entry is deleted with null returned; whatever preloadData returns
\* from the cache is at most 30 minutes old when it is returned, and the call
\* has scheduled the background dataLoader call.
C21_LoadIsFreshAndOwn ==
  \A a \in Addresses :
    LET entry == localStorage[getCacheKey(a)]
        ret == loadResult(localStorage, a, wall)
    IN  /\ ret # Null =>
             /\ wall - ret.lastUpdated <= CACHE_EXPIRY_TIME
             /\ ret.userAddress = toLowerCase(a)
        /\ entry # Null /\ wall - entry.lastUpdated > CACHE_EXPIRY_TIME =>
             /\ ret = Null
             /\ loadStorage(localStorage, a, wall)[getCacheKey(a)] = Null

C21_PreloadIsFresh ==
  preload.pc = "done" /\ preload.served \in {"cache", "fallback"} =>
    /\ preload.retAge <= CACHE_EXPIRY_TIME
    /\ preload.scheduled

C21_TimeBoundedCache == C21_LoadIsFreshAndOwn /\ C21_PreloadIsFresh

\* the event that belongs to an operation: a sent, replied or skipped bottle,
\* and a bottle received from getRandomBottle
EventOf(op) ==
  CASE op = "sendBottle" -> "BottleSent"
    [] op \in {"replyToBottle", "replyToReply"} -> "BottleReplied"
    [] op = "skipBottle" -> "BottleSkipped"
    [] op = "getRandomBottle" -> "BottleReceived"
    [] OTHER -> "none"

\* the one event of the last call names the record the call made or touched,
\* the caller and the block time
OneEvent(name) ==
  /\ Len(lastTx.logs) = 1
  /\ lastTx.logs[1].event = name
  /\ lastTx.logs[1].who = lastTx.sender
  /\ lastTx.logs[1].timestamp = now
  /\ lastTx.op = "sendBottle" => lastTx.logs[1].bottleId = bottleIdCounter
  /\ lastTx.op = "replyToBottle" =>
       /\ lastTx.logs[1].bottleId = lastTx.id
       /\ lastTx.logs[1].replyId = replyIdCounter
  /\ lastTx.op = "replyToReply" =>
       /\ lastTx.logs[1].bottleId = replies[lastTx.id].bottleId
       /\ lastTx.logs[1].replyId = replyIdCounter
  /\ lastTx.op \in {"skipBottle", "getRandomBottle"} =>
       lastTx.logs[1].bottleId = (IF lastTx.op = "skipBottle" THEN lastTx.id ELSE lastTx.ret)

\* what the ledger does emit: one BottleSent, BottleReplied or BottleSkipped by
\* every accepted sendBottle, reply and skipBottle, nothing by a rejected call,
\* and BottleReceived by no call
C22_EmittedEvents ==
  /\ lastTx.reason # OK => lastTx.logs = <<>>
  /\ lastTx.reason = OK /\ EventOf(lastTx.op) \notin {"none", "BottleReceived"} =>
       OneEvent(EventOf(lastTx.op))
  /\ \A i \in 1..Len(lastTx.logs) : lastTx.logs[i].event # "BottleReceived"

\* C22: every accepted sendBottle emits exactly one BottleSent, every accepted
\* replyToBottle or replyToReply exactly one BottleReplied, every accepted
\* skipBottle exactly one BottleSkipped, a bottle handed out by
\* getRandomBottle one BottleReceived, each with the ids, the caller and the
\* block time; a rejected call emits nothing.
C22_EventsOnStateChange ==
  /\ lastTx.reason # OK => lastTx.logs = <<>>
  /\ lastTx.reason = OK /\ EventOf(lastTx.op) # "none" => OneEvent(EventOf(lastTx.op))

\* the instants of the history that lie in the window [s, s + windowMs)
GrantedIn(identifier, s) ==
  {k \in 1..Len(granted[identifier]) :
     granted[identifier][k] >= s /\ granted[identifier][k] < s + windowMs}

\* C23: for every identifier, isAllowed returned true at most maxAttempts times
\* in any window of length windowMs; it returns true exactly when fewer than
\* maxAttempts true answers lie less than windowMs back, so older attempts do
\* not count; a rejected call adds no attempt; a call leaves the attempts of
\* every other identifier as they were.
C23_RateLimit ==
  /\ [](\A i \in Identifiers, s \in 0..MaxWall :
          Cardinality(GrantedIn(i, s)) <= maxAttempts(i))
  /\ [][\A i \in Identifiers :
          wall' = wall /\ rateVars' # rateVars =>
            /\ rateCall'.identifier = i =>
                 /\ rateCall'.ret = (Cardinality(GrantedIn(i, wall - windowMs + 1))
                                       < maxAttempts(i))
                 /\ ~rateCall'.ret => Len(attempts'[i]) <= Len(attempts[i])
                 /\ rateCall'.ret => Len(granted'[i]) = Len(granted[i]) + 1
            /\ rateCall'.identifier # i =>
                 attempts'[i] = attempts[i] /\ granted'[i] = granted[i]]_vars

\* a call is rejected at the limit, and after the window has passed a call of
\* the same identifier is allowed again while the other identifier is at its
\* own limit
C23_Witness ==
  /\ rateCall.identifier = "0xab" /\ rateCall.ret
  /\ wall >= windowMs
  /\ Len(attempts["0xab"]) = 1
  /\ Len(granted["0xab_reply"]) = maxAttempts("0xab_reply")

\* C24: a triggerRefresh call without force that comes less than the debounce
\* time after the last accepted refresh, or while isRefreshing is set, invokes
\* no callback and leaves lastRefreshTime as it is; an accepted call has
\* invoked every callback registered at the call exactly once when it returns,
\* whether callbacks threw or not; isRefreshing is false whenever no call is
\* running.
C24_Debounced ==
  /\ [](~lastTrigger.forceRefresh /\ (lastTrigger.early \/ lastTrigger.busy) =>
          ~lastTrigger.accepted)
  /\ [][/\ lastTrigger' # lastTrigger =>
             /\ lastTrigger'.early = (DateNow - lastRefreshTime < Debounce)
             /\ lastTrigger'.busy = isRefreshing
        /\ lastTrigger' # lastTrigger /\ ~lastTrigger'.accepted =>
             /\ lastRefreshTime' = lastRefreshTime
             /\ \A cb \in Callbacks :
                  invoked'[cb] = invoked[cb] + (IF refresh.pc = "running" /\ cb = "refreshes"
                                                THEN 1 ELSE 0)
        /\ lastRefreshTime' # lastRefreshTime =>
             lastTrigger'.forceRefresh
             \/ (DateNow - lastRefreshTime >= Debounce /\ ~isRefreshing)]_vars
  /\ [](refresh.pc = "idle" =>
          /\ ~isRefreshing
          /\ \A cb \in Callbacks :
               invoked[cb] = (IF cb \in refresh.registered THEN 1 ELSE 0))

\* an accepted refresh with a throwing callback has returned; the last call,
\* made without force from a callback while isRefreshing was set and the
\* debounce time was over, was turned away
C24_Witness ==
  /\ refresh.pc = "idle"
  /\ refresh.registered = Callbacks
  /\ lastTrigger.nested /\ lastTrigger.busy /\ ~lastTrigger.early
  /\ ~lastTrigger.accepted

\* C25: hasUserRepliedToBottle(u, b) is true exactly when a direct reply of u
\* to b is stored; a committed replyToBottle(b) by u makes it true for (u, b),
\* leaves it as it was for every other pair, and a replyToBottle(b) that any
\* other user could make before can still be made after.
C25_GuardMatchesReplies ==
  /\ [](\A u \in Users, b \in BottleIdArgs :
          hasUserRepliedToBottleResult(u, b).ret <=> (DirectReplies(u, b) # {}))
  /\ [][\A u \in Users, b \in BottleIds :
          /\ lastTx'.op = "replyToBottle" /\ replyIdCounter' # replyIdCounter
          /\ lastTx'.sender = u /\ lastTx'.id = b
          => /\ hasUserRepliedToBottleResult(u, b)'.ret
             /\ \A v \in Users, k \in BottleIdArgs :
                  <<v, k>> # <<u, b>> =>
                    hasUserRepliedToBottleResult(v, k)'.ret
                      = hasUserRepliedToBottleResult(v, k).ret
             /\ \A v \in Users \ {u}, c \in Contents :
                  replyToBottleReason(v, b, c) = OK => replyToBottleReason(v, b, c)' = OK]_vars

\* two users have replied to the same bottle one after the other; the third
\* user's guard for it is not set
C25_Witness ==
  \E u \in Users, v \in Users, w \in Users, b \in BottleIds :
    /\ u # v /\ w \notin {u, v}
    /\ lastTx.op = "replyToBottle" /\ lastTx.reason = OK
    /\ lastTx.sender = v /\ lastTx.id = b
    /\ hasUserRepliedToBottleResult(u, b).ret
    /\ hasUserRepliedToBottleResult(v, b).ret
    /\ ~hasUserRepliedToBottleResult(w, b).ret
    /\ DirectReplies(u, b) # {} /\ DirectReplies(v, b) # {}

\* how often an id stands in a list
Occurrences(list, id) == Cardinality({k \in 1..Len(list) : list[k] = id})

\* C26: for every bottle, replyCount, the length of getBottleReplies and the
\* number of stored replies with that bottleId are equal; every stored reply
\* id stands once in the reply list of its bottle, once in the reply list of
\* its replier, and in no other bottle's or user's list.
C26_ReplyBookkeeping ==
  /\ \A b \in StoredBottles :
       /\ getBottleRepliesResult(b).reason = OK
       /\ bottles[b].replyCount = Len(getBottleRepliesResult(b).ret)
       /\ bottles[b].replyCount = Cardinality(RepliesOf(b))
  /\ \A r \in StoredReplies :
       /\ \A b \in BottleIds :
            Occurrences(bottleReplies[b], r) = (IF b = replies[r].bottleId THEN 1 ELSE 0)
       /\ \A u \in Users :
            Occurrences(userReplies[u], r) = (IF u = replies[r].replier THEN 1 ELSE 0)

\* a bottle with a direct reply and a threaded reply by different users
C26_Witness ==
  \E b \in StoredBottles :
    /\ bottles[b].replyCount = 2
    /\ Len(bottleReplies[b]) = 2
    /\ \E r \in RepliesOf(b), t \in RepliesOf(b) :
         /\ replies[r].replyToReplyId = 0
         /\ replies[t].replyToReplyId = r
         /\ replies[t].replier # replies[r].replier

\* C27: once every saveBottleDataToCache call issued for the address has
\* returned, localStorage holds the data of the call that was issued last.
C27_NoSaveLost ==
  SavesSettled /\ lastIssued # "null" =>
    localStorage[getCacheKey(SaveAddress)].data = lastIssued

\* the chains that have started and not ended: a call is awaited or a re-roll
\* timer is pending
SearchesInFlight == {s \in Searches : searches[s].pc # "idle"}

\* C28: while a chain started by the user is under way, its re-roll timers
\* included, isSearching is true, and no second chain is under way.
C28_OneSearchInFlight ==
  /\ SearchesInFlight # {} => isSearching
  /\ Cardinality(SearchesInFlight) <= 1

\* C29: getUserBottleState(u, b) has hasViewed = false and hasReplied = false
\* for every user and bottle id in every state; right after a committed
\* replyToBottle(b) by u, hasUserRepliedToBottle(u, b) is true and
\* getUserBottleState(u, b).hasReplied is false.
C29_StateFlagsUnused ==
  /\ [](\A u \in Users, b \in BottleIdArgs :
          /\ ~getUserBottleStateResult(u, b).ret.hasViewed
          /\ ~getUserBottleStateResult(u, b).ret.hasReplied)
  /\ [][\A u \in Users, b \in BottleIds :
          /\ lastTx'.op = "replyToBottle" /\ replyIdCounter' # replyIdCounter
          /\ lastTx'.sender = u /\ lastTx'.id = b
          => /\ hasUserRepliedToBottleResult(u, b)'.ret
             /\ ~getUserBottleStateResult(u, b)'.ret.hasReplied]_vars

\* a user has skipped a bottle and then replied to it: the record has
\* hasSkipped only, and the guard is set
C29_Witness ==
  \E u \in Users, b \in BottleIds :
    /\ lastTx.op = "replyToBottle" /\ lastTx.reason = OK
    /\ lastTx.sender = u /\ lastTx.id = b
    /\ hasUserRepliedToBottleResult(u, b).ret
    /\ getUserBottleStateResult(u, b).ret =
         [hasViewed |-> FALSE, hasReplied |-> FALSE, hasSkipped |-> TRUE]


\* what the page has when checkReplyPermissions has run on fresh data: no
\* reply offered on the account's own bottle
C30_OwnBottleNotOffered ==
  [][\A b \in BottleIds :
       currentBottle' = b /\ permissionVars' # permissionVars /\ BottleAt(b).sender = PageAddress
         => ~canReply']_vars

\* C30: when the page shows a bottle, checked against the ledger as it is at
\* that moment, and the account is the sender of the bottle or has a direct
\* reply on it, canReply is false: the page offers no replyToBottle that the
\* ledger rejects with "Cannot reply to your own bottle" or "Already replied to
\* this bottle".
C30_PermissionMatchesLedger ==
  [][\A b \in BottleIds :
       currentBottle' = b /\ permissionVars' # permissionVars =>
         /\ (BottleAt(b).sender = PageAddress \/ DirectReplies(PageAddress, b) # {}) => ~canReply'
         /\ canReply' =>
              \A c \in Contents :
                replyToBottleReason(PageAddress, b, c) \notin
                  {"Cannot reply to your own bottle", "Already replied to this bottle"}]_vars
====
